---- MODULE Spec2Model ----
(***************************************************************************)
(* ReAct agent of flow/agent/react/react.go: one run of the graph that     *)
(* NewAgent wires (chat model node, tools node, optional direct_return     *)
(* node, the two branches), with the per-run state, the model output       *)
(* stream read by the StreamToolCallChecker, and the step bound of the     *)
(* graph engine.                                                           *)
(***************************************************************************)
EXTENDS Integers, Sequences, FiniteSets, TLC

\* ---------------------------------------------------------------- bounds
MaxStepBound == 3      \* largest configured AgentConfig.MaxStep explored
MaxChunks == 2         \* largest number of fragments in one model stream
MaxCalls == 3          \* largest number of tool-call requests in one message
MaxTools == 2          \* largest number of tools in ToolsConfig.Tools
MaxFails == 2          \* largest number of construction steps set to fail at once
MaxArgLen == 3         \* longest Function.Arguments string of a tool-call request

\* ------------------------------------------------------------ vocabulary
nodeKeyTools == "tools"
nodeKeyModel == "chat"
nodeKeyDirectReturn == "direct_return"
START == "start"
END == "end"

NoErr == "nil"
ErrExceedMaxSteps == "ErrExceedMaxSteps"
ErrNoValue == "ErrNoValue"
ErrRecv == "ErrRecv"
ErrModel == "ErrModel"
ErrTool == "ErrTool"

ToolNames == {"search", "calc"}

\* schema.ToolCall without a stream index: identifier and function name
ToolCall(id, name) == [ID |-> id, Name |-> name]

\* the tool-call lists one model turn may carry: none, one request, or two
\* requests with different identifiers (the first one possibly empty)
ToolCallLists ==
    {<<>>}
    \cup {<<ToolCall(i, n)>> : i \in {"", "c1"}, n \in ToolNames}
    \cup {<<ToolCall(i, n), ToolCall("c2", m)>> :
             i \in {"", "c1"}, n \in ToolNames, m \in ToolNames}

\* schema.Message; uid stands for the identity of the *schema.Message pointer
Message(uid, role, content, calls, callID) ==
    [uid |-> uid, Role |-> role, Content |-> content,
     ToolCalls |-> calls, ToolCallID |-> callID]

NoMsg == Message(<<0, 0>>, "none", "", <<>>, "")

\* one fragment of a streamed assistant message
Fragment(content, calls) == [Content |-> content, ToolCalls |-> calls]

Fragments == {Fragment(c, t) : c \in {"", "t"}, t \in ToolCallLists}

RECURSIVE SeqsUpTo(_, _)
SeqsUpTo(S, n) ==
    IF n = 0 THEN {<<>>}
    ELSE LET shorter == SeqsUpTo(S, n - 1)
         IN  shorter \cup {Append(s, x) : s \in {t \in shorter : Len(t) = n - 1}, x \in S}

\* streams given to the checker on its own: any fragments, the empty stream
\* included
CheckerStreams == SeqsUpTo(Fragments, MaxChunks)

\* fragments of a run's model turn: a priming fragment, a text fragment, or a
\* fragment carrying the turn's (complete, index-less) tool calls
RunFragments == {f \in Fragments : f.Content = "" \/ f.ToolCalls = <<>>}

\* streams the model capability answers with in a run: 1..MaxChunks fragments
\* of which at most one carries tool calls
ModelStreams ==
    {s \in SeqsUpTo(RunFragments, MaxChunks) :
        /\ Len(s) >= 1
        /\ Cardinality({k \in 1..Len(s) : s[k].ToolCalls # <<>>}) <= 1}

\* what the caller passes to Generate / Stream
Inputs ==
    { <<Message(<<0, 1>>, "user", "q", <<>>, "")>>,
      <<Message(<<0, 1>>, "system", "p", <<>>, ""),
        Message(<<0, 2>>, "user", "q", <<>>, "")>> }

DirectReturnSets == {{}, {"search"}}

VARIABLES
    MaxStep,                    \* AgentConfig.MaxStep
    ToolReturnDirectly,         \* AgentConfig.ToolReturnDirectly
    Messages,                   \* state.Messages
    ReturnDirectlyToolCallID,   \* state.ReturnDirectlyToolCallID
    phase,                      \* "node": `next` is to be executed; "branch": `lastNode` has run; "done"
    next,                       \* node selected by the last edge or branch
    lastNode,                   \* node executed last
    step,                       \* nodes executed so far in this run
    input,                      \* messages handed to the chat model node
    sr,                         \* the model output stream given to the checker
    modelOutput,                \* the (concatenated) message of the last model turn
    isToolCall,                 \* answer of the last StreamToolCallChecker call
    toolsOutput,                \* result messages of the last tools node execution
    final,                      \* message returned to the caller
    err,                        \* error returned to the caller
    log,                        \* every message exchanged in the run, in order of creation
    given,                      \* the fragments of a stream handed to the checker on its own
    MessageModifier,            \* AgentConfig.MessageModifier
    modelInput,                 \* the list modelPreHandle returned for the model
    env,                        \* what the collaborators of a NewAgent call answer
    created,                    \* what a NewAgent call returned: agent and error
    tcOrig,                     \* a tool-call request as the non-streaming model produces it
    tcChunks,                   \* the tool-call fragments handed to concatToolCalls
    tcMerged,                   \* the tool calls concatToolCalls returned
    runs,                       \* the runs of one agent executing concurrently
    states,                     \* the state objects the engine holds for those runs
    sharedErr,                  \* the variable err of buildReturnDirectly, captured by directReturn
    toolsInput,                 \* the message toolsNodePreHandle returned for the tools
    trace,                      \* the nodes executed in the run, in order
    StreamToolCallChecker,      \* AgentConfig.StreamToolCallChecker
    cancelled                   \* the contexts that have been cancelled

vars == <<MaxStep, ToolReturnDirectly, Messages, ReturnDirectlyToolCallID, phase,
          next, lastNode, step, input, sr, modelOutput, isToolCall, toolsOutput,
          final, err, log, given, MessageModifier, modelInput, env, created,
          tcOrig, tcChunks, tcMerged, runs, states, sharedErr, toolsInput, trace,
          StreamToolCallChecker, cancelled>>

config == <<MaxStep, ToolReturnDirectly, MessageModifier>>

\* the variables of NewAgent calls, of concatToolCalls and of concurrent runs
ctorVars == <<env, created>>
concatVars == <<tcOrig, tcChunks, tcMerged>>
concVars == <<runs, states, sharedErr>>
ctxVars == <<StreamToolCallChecker, cancelled>>
auxVars == <<ctorVars, concatVars, concVars, ctxVars>>

\* toolCallChecker == nil: NewAgent takes firstChunkStreamToolCallChecker
NoChecker == "nil"

\* the nil *Agent: no graph, no runnable
NoAgent == [graph |-> {}, toolInfos |-> <<>>, maxRunSteps |-> 0]
NotCreated == [agent |-> NoAgent, err |-> NoErr]
NoModifier == "nil"

\* schema.StreamReader: the fragments not read yet, whether it is open,
\* whether a Recv on it has failed, and how many times the branch after the
\* chat model has handed it to the tool-call checker
StreamReader(chunks) ==
    [state |-> "open", rest |-> chunks, failed |-> FALSE, checked |-> 0]

NoStream == [state |-> "none", rest |-> <<>>, failed |-> FALSE, checked |-> 0]

\* WithGenLocalState: a fresh state per run
GenLocalState == [Messages |-> <<>>, ReturnDirectlyToolCallID |-> ""]

\* nothing constructed, nothing concatenated, no concurrent run
AuxIdle ==
    /\ env = <<>>
    /\ created = NotCreated
    /\ tcOrig = <<>>
    /\ tcChunks = <<>>
    /\ tcMerged = <<>>
    /\ runs = <<>>
    /\ states = <<>>
    /\ sharedErr = NoErr
    /\ StreamToolCallChecker = NoChecker
    /\ cancelled = {}

Init ==
    /\ MaxStep \in 1..MaxStepBound
    /\ ToolReturnDirectly \in DirectReturnSets
    /\ Messages = GenLocalState.Messages
    /\ ReturnDirectlyToolCallID = GenLocalState.ReturnDirectlyToolCallID
    /\ phase = "node"
    /\ next = nodeKeyModel
    /\ lastNode = START
    /\ step = 0
    /\ input \in Inputs
    /\ sr = NoStream
    /\ modelOutput = NoMsg
    /\ isToolCall = FALSE
    /\ toolsOutput = <<>>
    /\ toolsInput = NoMsg
    /\ trace = <<>>
    /\ final = NoMsg
    /\ err = NoErr
    /\ log = input
    /\ given = <<>>
    /\ MessageModifier = NoModifier
    /\ modelInput = <<>>
    /\ AuxIdle

\* ------------------------------------------------------- pure functions

\* schema.ConcatMessages on index-less fragments: contents concatenated in
\* order, tool calls appended in order
RECURSIVE ConcatContent(_)
ConcatContent(chunks) ==
    IF chunks = <<>> THEN "" ELSE Head(chunks).Content \o ConcatContent(Tail(chunks))

RECURSIVE ConcatToolCalls(_)
ConcatToolCalls(chunks) ==
    IF chunks = <<>> THEN <<>> ELSE Head(chunks).ToolCalls \o ConcatToolCalls(Tail(chunks))

ConcatMessages(chunks, uid) ==
    Message(uid, "assistant", ConcatContent(chunks), ConcatToolCalls(chunks), "")

\* sr.Close(): the unread fragments are released
Close(s) == [s EXCEPT !.state = "closed", !.rest = <<>>]

\* The for loop of firstChunkStreamToolCallChecker. failAt is the number of
\* the Recv call, counted from here, that fails (0: none does).
RECURSIVE firstChunkLoop(_, _)
firstChunkLoop(s, failAt) ==
    IF failAt = 1
    THEN [isToolCall |-> FALSE, err |-> ErrRecv, sr |-> [s EXCEPT !.failed = TRUE]]
    ELSE IF s.rest = <<>>
    THEN [isToolCall |-> FALSE, err |-> NoErr, sr |-> s]
    ELSE LET msg == Head(s.rest)
             s1 == [s EXCEPT !.rest = Tail(@)]
         IN  IF Len(msg.ToolCalls) > 0
             THEN [isToolCall |-> TRUE, err |-> NoErr, sr |-> s1]
             ELSE IF Len(msg.Content) = 0
             THEN firstChunkLoop(s1, IF failAt = 0 THEN 0 ELSE failAt - 1)
             ELSE [isToolCall |-> FALSE, err |-> NoErr, sr |-> s1]

\* variant: the first fragment alone decides, empty or not
firstChunkOnly(s, failAt) ==
    IF failAt = 1
    THEN [isToolCall |-> FALSE, err |-> ErrRecv, sr |-> Close([s EXCEPT !.failed = TRUE])]
    ELSE IF s.rest = <<>>
    THEN [isToolCall |-> FALSE, err |-> NoErr, sr |-> Close(s)]
    ELSE [isToolCall |-> Len(Head(s.rest).ToolCalls) > 0, err |-> NoErr, sr |-> Close(s)]

\* variant: the stream is closed on the paths that return no error only
firstChunkCloseUnlessError(s, failAt) ==
    LET r == firstChunkLoop(s, failAt)
    IN  IF r.err = NoErr THEN [r EXCEPT !.sr = Close(@)] ELSE r

\* firstChunkStreamToolCallChecker: the loop under `defer sr.Close()`
firstChunkStreamToolCallChecker(s, failAt) ==
    LET r == firstChunkLoop(s, failAt)
    IN  [r EXCEPT !.sr = Close(@)]

\* The for loop of claudeStyleToolCallChecker: every fragment is collected
\* until io.EOF. failAt is the number of the Recv call that fails (0: none).
RECURSIVE claudeStyleLoop(_, _, _)
claudeStyleLoop(s, failAt, allMessages) ==
    IF failAt = 1
    THEN [allMessages |-> allMessages, err |-> ErrRecv, sr |-> [s EXCEPT !.failed = TRUE]]
    ELSE IF s.rest = <<>>
    THEN [allMessages |-> allMessages, err |-> NoErr, sr |-> s]
    ELSE claudeStyleLoop([s EXCEPT !.rest = Tail(@)],
                         IF failAt = 0 THEN 0 ELSE failAt - 1,
                         Append(allMessages, Head(s.rest)))

\* variant: the collection stops at the first fragment with content
claudeStyleStopAtContent(s, failAt) ==
    LET r == firstChunkStreamToolCallChecker(s, failAt)
    IN  [isToolCall |-> r.isToolCall, err |-> r.err, sr |-> r.sr, combined |-> NoMsg]

\* claudeStyleToolCallChecker: the fragments are merged and the merged
\* message is asked for tool calls
claudeStyleToolCallChecker(s, failAt) ==
    LET r == claudeStyleLoop(s, failAt, <<>>)
        combined == ConcatMessages(r.allMessages, <<1, 0>>)
    IN  IF r.err # NoErr
        THEN [isToolCall |-> FALSE, err |-> r.err, sr |-> Close(r.sr), combined |-> NoMsg]
        ELSE IF Len(r.allMessages) > 0
        THEN [isToolCall |-> Len(combined.ToolCalls) > 0, err |-> NoErr,
              sr |-> Close(r.sr), combined |-> combined]
        ELSE [isToolCall |-> FALSE, err |-> NoErr, sr |-> Close(r.sr), combined |-> NoMsg]

\* the contexts of the program: the one NewAgent was called with and the one
\* of a Generate/Stream call
ctxNewAgent == "NewAgent"
ctxRun == "run"
Contexts == {ctxNewAgent, ctxRun}
ErrCanceled == "context canceled"

\* a config.StreamToolCallChecker that honours the context it is given
CtxAwareChecker == "ctxAware"
ctxAwareToolCallChecker(ctx, s, failAt, done) ==
    IF ctx \in done
    THEN [isToolCall |-> FALSE, err |-> ErrCanceled, sr |-> Close(s)]
    ELSE firstChunkStreamToolCallChecker(s, failAt)

\* variant: the checker is called again on the stream it has closed
toolCallCheckerTwice(checker, ctx, s, failAt, done) ==
    LET r == firstChunkStreamToolCallChecker(s, failAt)
        again == firstChunkStreamToolCallChecker(r.sr, 0)
    IN  IF r.err # NoErr \/ r.isToolCall
        THEN [r EXCEPT !.sr.checked = @ + 1]
        ELSE [again EXCEPT !.sr.checked = @ + 2]

\* toolCallChecker(ctx, sr) in modelPostBranchCondition: toolCallChecker is
\* config.StreamToolCallChecker, or firstChunkStreamToolCallChecker when the
\* configuration has none (which never looks at its context)
toolCallChecker(checker, ctx, s, failAt, done) ==
    LET r == IF checker = NoChecker
             THEN firstChunkStreamToolCallChecker(s, failAt)
             ELSE ctxAwareToolCallChecker(ctx, s, failAt, done)
    IN  [r EXCEPT !.sr.checked = @ + 1]

\* the context modelPostBranchCondition passes to the checker: its own
\* context parameter is blank, `ctx` is the parameter of NewAgent
branchCheckerCtx(ownCtx, agentCtx) == agentCtx

\* variant: the two successors exchanged
modelPostBranchSwapped(chk) ==
    IF chk.err # NoErr THEN [endNode |-> "", err |-> chk.err]
    ELSE IF chk.isToolCall THEN [endNode |-> END, err |-> NoErr]
    ELSE [endNode |-> nodeKeyTools, err |-> NoErr]

\* variant: the checker's error is dropped
modelPostBranchIgnoreErr(chk) ==
    IF chk.isToolCall THEN [endNode |-> nodeKeyTools, err |-> NoErr]
    ELSE [endNode |-> END, err |-> NoErr]

\* modelPostBranchCondition, given what the checker returned
modelPostBranchCondition(chk) ==
    IF chk.err # NoErr THEN [endNode |-> "", err |-> chk.err]
    ELSE IF chk.isToolCall THEN [endNode |-> nodeKeyTools, err |-> NoErr]
    ELSE [endNode |-> END, err |-> NoErr]

\* variant: the scan does not stop at the first eligible request
RECURSIVE lastReturnDirectly(_, _)
lastReturnDirectly(calls, toolReturnDirectly) ==
    IF calls = <<>> THEN ""
    ELSE LET later == lastReturnDirectly(Tail(calls), toolReturnDirectly)
         IN  IF later # "" THEN later
             ELSE IF Head(calls).Name \in toolReturnDirectly THEN Head(calls).ID
             ELSE ""

\* getReturnDirectlyToolCallID
RECURSIVE firstReturnDirectly(_, _)
firstReturnDirectly(calls, toolReturnDirectly) ==
    IF calls = <<>> THEN ""
    ELSE IF Head(calls).Name \in toolReturnDirectly THEN Head(calls).ID
    ELSE firstReturnDirectly(Tail(calls), toolReturnDirectly)

getReturnDirectlyToolCallID(msg, toolReturnDirectly) ==
    IF Cardinality(toolReturnDirectly) = 0 THEN ""
    ELSE firstReturnDirectly(msg.ToolCalls, toolReturnDirectly)

\* schema.SystemMessage
SystemMessage(content) == Message(<<0, 0>>, "system", content, <<>>, "")

\* NewPersonaModifier(persona): a new list, the persona first, then the input
NewPersonaModifier(persona, in) == <<SystemMessage(persona)>> \o in

Reverse(seq) == [k \in 1..Len(seq) |-> seq[Len(seq) + 1 - k]]

\* the MessageModifier functions explored
Modifiers == {"persona", "reverse", "dropFirst", "overwrite", "clear"}

\* A call of the MessageModifier named mod on the list `list`: `out` is the
\* list it returns, `arg` is what the elements of the list it was given are
\* after the call (a modifier may reorder or overwrite them in place).
ApplyModifier(mod, list) ==
    CASE mod = "persona" -> [arg |-> list, out |-> NewPersonaModifier("p", list)]
      [] mod = "reverse" -> [arg |-> Reverse(list), out |-> Reverse(list)]
      [] mod = "dropFirst" ->
            [arg |-> list, out |-> IF list = <<>> THEN list ELSE Tail(list)]
      [] mod = "overwrite" ->
            LET w == [k \in 1..Len(list) |-> SystemMessage("p")]
            IN  [arg |-> w, out |-> w]
      [] mod = "clear" ->
            [arg |-> [k \in 1..Len(list) |-> NoMsg], out |-> <<>>]

\* variant: the input replaces the history instead of being appended
modelPreHandleAssign(in, st, messageModifier) ==
    [state |-> [st EXCEPT !.Messages = in], out |-> in]

\* variant: the input is put in front of the history
modelPreHandlePrepend(in, st, messageModifier) ==
    [state |-> [st EXCEPT !.Messages = in \o @], out |-> in \o st.Messages]

\* variant: the modifier is given the history itself, not a copy of it
modelPreHandleNoCopy(in, st, messageModifier) ==
    LET messages == st.Messages \o in
    IN  IF messageModifier = NoModifier
        THEN [state |-> [st EXCEPT !.Messages = messages], out |-> messages]
        ELSE LET r == ApplyModifier(messageModifier, messages)
             IN  [state |-> [st EXCEPT !.Messages = r.arg], out |-> r.out]

\* modelPreHandle: the input is appended to the history; the model is given
\* the history itself, or what the MessageModifier returns for a copy of it
\* (what the modifier does to the elements of the copy is lost)
modelPreHandle(in, st, messageModifier) ==
    LET messages == st.Messages \o in
    IN  IF messageModifier = NoModifier
        THEN [state |-> [st EXCEPT !.Messages = messages], out |-> messages]
        ELSE LET modifiedInput == messages
                 r == ApplyModifier(messageModifier, modifiedInput)
             IN  [state |-> [st EXCEPT !.Messages = messages], out |-> r.out]

\* variant: the model output is appended, the marker is left as it was
toolsNodePreHandleKeepMarker(in, st, toolReturnDirectly) ==
    [state |-> [st EXCEPT !.Messages = Append(@, in)], out |-> in, panic |-> FALSE]

\* variant: a nil input is handled like a message
toolsNodePreHandleNoNilCheck(in, st, toolReturnDirectly) ==
    [state |-> [Messages |-> Append(st.Messages, in),
                ReturnDirectlyToolCallID |->
                    getReturnDirectlyToolCallID(in, toolReturnDirectly)],
     out |-> in, panic |-> FALSE]

\* toolsNodePreHandle. NoMsg stands for the nil input of a resumed run: the
\* last message of the history is returned and the state is left alone
\* (indexing an empty history panics); any other input is appended, the
\* marker is computed from it, and it is returned.
toolsNodePreHandle(in, st, toolReturnDirectly) ==
    IF in = NoMsg
    THEN IF Len(st.Messages) = 0
         THEN [state |-> st, out |-> NoMsg, panic |-> TRUE]
         ELSE [state |-> st, out |-> st.Messages[Len(st.Messages)], panic |-> FALSE]
    ELSE [state |-> [Messages |-> Append(st.Messages, in),
                     ReturnDirectlyToolCallID |->
                         getReturnDirectlyToolCallID(in, toolReturnDirectly)],
          out |-> in, panic |-> FALSE]

\* variant: the tools node is its own successor
toolsSuccessorLoop(toolReturnDirectly, marker) == nodeKeyTools

\* variant: without direct return the tools node is wired to END
toolsSuccessorEnd(toolReturnDirectly, returnDirectlyToolCallID) ==
    IF Cardinality(toolReturnDirectly) > 0
    THEN IF Len(returnDirectlyToolCallID) > 0 THEN nodeKeyDirectReturn ELSE nodeKeyModel
    ELSE END

\* variant: the two successors of the branch of buildReturnDirectly exchanged
toolsSuccessorSwapped(toolReturnDirectly, returnDirectlyToolCallID) ==
    IF Cardinality(toolReturnDirectly) > 0
    THEN IF Len(returnDirectlyToolCallID) > 0 THEN nodeKeyModel ELSE nodeKeyDirectReturn
    ELSE nodeKeyModel

\* the successor NewAgent wires after the tools node: the branch of
\* buildReturnDirectly when tools are configured to return directly, else
\* the edge back to the chat model
toolsSuccessor(toolReturnDirectly, returnDirectlyToolCallID) ==
    IF Cardinality(toolReturnDirectly) > 0
    THEN IF Len(returnDirectlyToolCallID) > 0 THEN nodeKeyDirectReturn ELSE nodeKeyModel
    ELSE nodeKeyModel

\* variant: falls back to the first result when none matches
directReturnFallback(msgs, returnDirectlyToolCallID) ==
    LET hit == {k \in 1..Len(msgs) : msgs[k].ToolCallID = returnDirectlyToolCallID}
    IN  IF msgs = <<>> THEN [msg |-> NoMsg, err |-> ErrNoValue]
        ELSE IF hit = {} THEN [msg |-> msgs[1], err |-> NoErr]
        ELSE [msg |-> msgs[CHOOSE k \in hit : \A j \in hit : k <= j], err |-> NoErr]

\* directReturn: the first result whose ToolCallID is the recorded one
RECURSIVE directReturn(_, _)
directReturn(msgs, returnDirectlyToolCallID) ==
    IF msgs = <<>> THEN [msg |-> NoMsg, err |-> ErrNoValue]
    ELSE IF Head(msgs).ToolCallID = returnDirectlyToolCallID
    THEN [msg |-> Head(msgs), err |-> NoErr]
    ELSE directReturn(Tail(msgs), returnDirectlyToolCallID)

\* variant: the capacity of the history (MaxStep+1) is passed as the bound
MaxRunStepsCapacity(maxStep) == maxStep + 1

\* variant: the bound is doubled
MaxRunStepsDoubled(maxStep) == 2 * maxStep

\* compose.WithMaxRunSteps(config.MaxStep)
MaxRunSteps(maxStep) == maxStep

\* ----------------------------------------------------- tool capability
\* each request is answered with a result carrying its identifier, or its
\* result is dropped
ToolOutcomes(calls) == [1..Len(calls) -> {"ok", "drop"}]

RECURSIVE ToolResults(_, _, _, _)
ToolResults(calls, outcome, k, stp) ==
    IF k > Len(calls) THEN <<>>
    ELSE LET rest == ToolResults(calls, outcome, k + 1, stp)
         IN  IF outcome[k] = "drop" THEN rest
             ELSE <<Message(<<stp, k>>, "tool", "r", <<>>, calls[k].ID)>> \o rest

\* ---------------------------------------------------------------- actions
state == [Messages |-> Messages, ReturnDirectlyToolCallID |-> ReturnDirectlyToolCallID]

\* variant: the error of the engine's run is not passed on
GenerateDropErr(out) == [out EXCEPT !.err = NoErr]

\* Agent.Generate / Agent.Stream: what the engine's run returned is returned
\* to the caller as it is
Generate(out) == out

\* the engine ends the run with an error
Fail(e) ==
    /\ err' = Generate([msg |-> NoMsg, err |-> e]).err
    /\ phase' = "done"

\* chat model node: modelPreHandle, then the model capability answers with a
\* stream of fragments or fails
ChatModel ==
    /\ phase = "node" /\ next = nodeKeyModel
    /\ step < MaxRunSteps(MaxStep)
    /\ LET pre == modelPreHandle(input, state, MessageModifier)
       IN  /\ Messages' = pre.state.Messages
           /\ modelInput' = pre.out
    /\ step' = step + 1
    /\ lastNode' = nodeKeyModel
    /\ isToolCall' = FALSE
    /\ \/ /\ Fail(ErrModel)
          /\ UNCHANGED <<sr, modelOutput, log>>
       \/ /\ \E s \in ModelStreams :
               /\ sr' = StreamReader(s)
               /\ modelOutput' = ConcatMessages(s, <<step + 1, 0>>)
          /\ log' = Append(log, modelOutput')
          /\ phase' = "branch"
          /\ err' = err
    /\ trace' = Append(trace, nodeKeyModel)
    /\ UNCHANGED <<config, ReturnDirectlyToolCallID, next, input, toolsOutput, final,
                   given, auxVars, toolsInput>>

\* branch after the chat model node: the checker reads the stream
ModelPostBranch ==
    /\ phase = "branch" /\ lastNode = nodeKeyModel
    /\ \E failAt \in 0..(Len(sr.rest) + 1) :
         LET chk == toolCallChecker(StreamToolCallChecker,
                                    branchCheckerCtx(ctxRun, ctxNewAgent),
                                    sr, failAt, cancelled)
             b == modelPostBranchCondition(chk)
         IN  /\ sr' = chk.sr
             /\ isToolCall' = chk.isToolCall
             /\ next' = b.endNode
             /\ IF b.err # NoErr
                THEN Fail(b.err) /\ final' = final
                ELSE IF b.endNode = END
                THEN /\ phase' = "done"
                     /\ final' = Generate([msg |-> modelOutput, err |-> NoErr]).msg
                     /\ err' = err
                ELSE phase' = "node" /\ final' = final /\ err' = err
    /\ UNCHANGED <<config, Messages, ReturnDirectlyToolCallID, lastNode, step, input,
                   modelOutput, toolsOutput, log, given, modelInput, auxVars, toolsInput, trace>>

\* tools node: toolsNodePreHandle, then the tools run
ToolsNode ==
    /\ phase = "node" /\ next = nodeKeyTools
    /\ step < MaxRunSteps(MaxStep)
    /\ LET pre == toolsNodePreHandle(modelOutput, state, ToolReturnDirectly)
       IN  /\ Messages' = pre.state.Messages
           /\ ReturnDirectlyToolCallID' = pre.state.ReturnDirectlyToolCallID
           /\ toolsInput' = pre.out
           /\ \/ /\ Fail(ErrTool)
                 /\ UNCHANGED <<toolsOutput, log>>
              \/ /\ \E outcome \in ToolOutcomes(pre.out.ToolCalls) :
                      toolsOutput' = ToolResults(pre.out.ToolCalls, outcome, 1, step + 1)
                 /\ log' = log \o toolsOutput'
                 /\ phase' = "branch"
                 /\ err' = err
    /\ step' = step + 1
    /\ lastNode' = nodeKeyTools
    /\ trace' = Append(trace, nodeKeyTools)
    /\ sr' = NoStream
    /\ UNCHANGED <<config, next, input, modelOutput, isToolCall, final, given,
                   modelInput, auxVars>>

\* after the tools node: the branch of buildReturnDirectly, or the edge to
\* the chat model, whose input is the tools' results
ToolsPostBranch ==
    /\ phase = "branch" /\ lastNode = nodeKeyTools
    /\ next' = toolsSuccessor(ToolReturnDirectly, ReturnDirectlyToolCallID)
    /\ input' = IF next' = nodeKeyModel THEN toolsOutput ELSE input
    /\ phase' = "node"
    /\ UNCHANGED <<config, Messages, ReturnDirectlyToolCallID, lastNode, step, sr,
                   modelOutput, isToolCall, toolsOutput, final, err, log, given, modelInput, auxVars, toolsInput, trace>>

\* variant: the direct_return node resets the marker it has used
DirectReturnConsumesMarker ==
    /\ phase = "node" /\ next = nodeKeyDirectReturn
    /\ step < MaxRunSteps(MaxStep)
    /\ step' = step + 1
    /\ lastNode' = nodeKeyDirectReturn
    /\ ReturnDirectlyToolCallID' = ""
    /\ LET r == directReturn(toolsOutput, ReturnDirectlyToolCallID)
       IN  IF r.err # NoErr
           THEN Fail(r.err) /\ UNCHANGED <<next, final>>
           ELSE /\ phase' = "done" /\ next' = END
                /\ final' = Generate(r).msg
                /\ err' = err
    /\ trace' = Append(trace, nodeKeyDirectReturn)
    /\ UNCHANGED <<config, Messages, input, sr, modelOutput, isToolCall, toolsOutput,
                   log, given, modelInput, auxVars, toolsInput>>

\* direct_return node, followed by its edge to END
DirectReturn ==
    /\ phase = "node" /\ next = nodeKeyDirectReturn
    /\ step < MaxRunSteps(MaxStep)
    /\ step' = step + 1
    /\ lastNode' = nodeKeyDirectReturn
    /\ LET r == directReturn(toolsOutput, ReturnDirectlyToolCallID)
       IN  IF r.err # NoErr
           THEN Fail(r.err) /\ UNCHANGED <<next, final>>
           ELSE /\ phase' = "done" /\ next' = END
                /\ final' = Generate(r).msg
                /\ err' = err
    /\ trace' = Append(trace, nodeKeyDirectReturn)
    /\ UNCHANGED <<config, Messages, ReturnDirectlyToolCallID, input, sr, modelOutput,
                   isToolCall, toolsOutput, log, given, modelInput, auxVars, toolsInput>>

\* the engine refuses to execute a node once the step bound is used up
ExceedMaxSteps ==
    /\ phase = "node"
    /\ next \in {nodeKeyModel, nodeKeyTools, nodeKeyDirectReturn}
    /\ step >= MaxRunSteps(MaxStep)
    /\ Fail(ErrExceedMaxSteps)
    /\ UNCHANGED <<config, Messages, ReturnDirectlyToolCallID, next, lastNode, step,
                   input, sr, modelOutput, isToolCall, toolsOutput, final, log, given, modelInput, auxVars, toolsInput, trace>>

Next ==
    \/ ChatModel
    \/ ModelPostBranch
    \/ ToolsNode
    \/ ToolsPostBranch
    \/ DirectReturn
    \/ ExceedMaxSteps

Spec == Init /\ [][Next]_vars

\* every invocation of a capability returns and the engine keeps scheduling
FairSpec == Spec /\ WF_vars(Next)

\* ------------------------------------------- the checker on its own
CheckerInit ==
    /\ MaxStep = 1
    /\ ToolReturnDirectly = {}
    /\ Messages = <<>>
    /\ ReturnDirectlyToolCallID = ""
    /\ phase = "check"
    /\ next = ""
    /\ lastNode = START
    /\ step = 0
    /\ input = <<>>
    /\ given \in CheckerStreams
    /\ sr = StreamReader(given)
    /\ modelOutput = NoMsg
    /\ isToolCall = FALSE
    /\ toolsOutput = <<>>
    /\ toolsInput = NoMsg
    /\ trace = <<>>
    /\ final = NoMsg
    /\ err = NoErr
    /\ log = <<>>
    /\ MessageModifier = NoModifier
    /\ modelInput = <<>>
    /\ AuxIdle

\* one call of the StreamToolCallChecker on the stream
CheckStream ==
    /\ phase = "check"
    /\ \E failAt \in 0..(Len(sr.rest) + 1) :
         LET chk == firstChunkStreamToolCallChecker(sr, failAt)
         IN  /\ sr' = chk.sr
             /\ isToolCall' = chk.isToolCall
             /\ err' = chk.err
    /\ phase' = "checked"
    /\ UNCHANGED <<config, Messages, ReturnDirectlyToolCallID, next, lastNode, step,
                   input, modelOutput, toolsOutput, final, log, given, modelInput, auxVars, toolsInput, trace>>

\* one call of claudeStyleToolCallChecker on the stream; the merged message
\* is kept in modelOutput
CheckStreamFull ==
    /\ phase = "check"
    /\ \E failAt \in 0..(Len(sr.rest) + 1) :
         LET chk == claudeStyleToolCallChecker(sr, failAt)
         IN  /\ sr' = chk.sr
             /\ isToolCall' = chk.isToolCall
             /\ err' = chk.err
             /\ modelOutput' = chk.combined
    /\ phase' = "checkedFull"
    /\ UNCHANGED <<config, Messages, ReturnDirectlyToolCallID, next, lastNode, step,
                   input, toolsOutput, final, log, given, modelInput, auxVars, toolsInput, trace>>

CheckerNext ==
    \/ CheckStream
    \/ CheckStreamFull

CheckerSpec == CheckerInit /\ [][CheckerNext]_vars

\* ------------------------------ the checker and the cancellation of contexts
\* an agent built with or without a checker of its own, one run of it at the
\* branch after the chat model, no context cancelled yet
CancelInit ==
    /\ MaxStep = 1
    /\ ToolReturnDirectly = {}
    /\ Messages = <<>>
    /\ ReturnDirectlyToolCallID = ""
    /\ phase = "check"
    /\ next = ""
    /\ lastNode = nodeKeyModel
    /\ step = 1
    /\ input = <<>>
    /\ given \in CheckerStreams
    /\ sr = StreamReader(given)
    /\ modelOutput = NoMsg
    /\ isToolCall = FALSE
    /\ toolsOutput = <<>>
    /\ toolsInput = NoMsg
    /\ trace = <<>>
    /\ final = NoMsg
    /\ err = NoErr
    /\ log = <<>>
    /\ MessageModifier = NoModifier
    /\ modelInput = <<>>
    /\ env = <<>>
    /\ created = NotCreated
    /\ tcOrig = <<>>
    /\ tcChunks = <<>>
    /\ tcMerged = <<>>
    /\ runs = <<>>
    /\ states = <<>>
    /\ sharedErr = NoErr
    /\ StreamToolCallChecker \in {NoChecker, CtxAwareChecker}
    /\ cancelled = {}

\* a caller cancels one of the contexts while the stream is not read yet
CancelCtx ==
    /\ phase = "check"
    /\ \E c \in Contexts \ cancelled : cancelled' = cancelled \cup {c}
    /\ UNCHANGED <<config, Messages, ReturnDirectlyToolCallID, phase, next, lastNode,
                   step, input, sr, modelOutput, isToolCall, toolsOutput, final, err,
                   log, given, modelInput, ctorVars, concatVars, concVars,
                   StreamToolCallChecker, toolsInput, trace>>

\* modelPostBranchCondition is called with the run's context
CheckUnderCtx ==
    /\ phase = "check"
    /\ \E failAt \in 0..(Len(sr.rest) + 1) :
         LET chk == toolCallChecker(StreamToolCallChecker,
                                    branchCheckerCtx(ctxRun, ctxNewAgent),
                                    sr, failAt, cancelled)
             b == modelPostBranchCondition(chk)
         IN  /\ sr' = chk.sr
             /\ isToolCall' = chk.isToolCall
             /\ next' = b.endNode
             /\ err' = b.err
    /\ phase' = "checked"
    /\ UNCHANGED <<config, Messages, ReturnDirectlyToolCallID, lastNode, step, input,
                   modelOutput, toolsOutput, final, log, given, modelInput, auxVars,
                   toolsInput, trace>>

CancelNext ==
    \/ CancelCtx
    \/ CheckUnderCtx

CancelSpec == CancelInit /\ [][CancelNext]_vars

\* ------------------------------------------------------- NewAgent
ErrInfo == "ErrInfo"

\* the calls of NewAgent that may return an error, besides t.Info
stepRegister == "RegisterSerializableType"
stepChatModelWithTools == "ChatModelWithTools"
stepNewToolNode == "NewToolNode"
stepCompile == "Compile"

\* the calls that wire the graph, in the order NewAgent makes them
buildReturnDirectlySteps ==
    <<"AddLambdaNode(direct_return)", "AddBranch(tools)", "AddEdge(direct_return,END)">>

GraphSteps(toolReturnDirectly) ==
    <<"AddChatModelNode", "AddEdge(START,chat)", "AddToolsNode", "AddBranch(chat)">>
    \o (IF Cardinality(toolReturnDirectly) > 0
        THEN buildReturnDirectlySteps
        ELSE <<"AddEdge(tools,chat)">>)

Range(f) == {f[k] : k \in DOMAIN f}

FailPoints ==
    {stepRegister, stepChatModelWithTools, stepNewToolNode, stepCompile}
    \cup Range(GraphSteps({})) \cup Range(GraphSteps({"search"}))

\* a tool of ToolsConfig.Tools and what its Info method answers
Tools == [Name : ToolNames, Info : {"ok", "err"}]

\* variant: a tool whose Info fails is left out of the list
RECURSIVE genToolInfosSkip(_)
genToolInfosSkip(tools) ==
    IF tools = <<>> THEN [toolInfos |-> <<>>, err |-> NoErr]
    ELSE LET rest == genToolInfosSkip(Tail(tools))
         IN  IF Head(tools).Info = "err" THEN rest
             ELSE [rest EXCEPT !.toolInfos = <<Head(tools).Name>> \o @]

\* genToolInfos: the descriptors of the tools in order, or the error of the
\* first Info call that fails
RECURSIVE genToolInfosFrom(_, _)
genToolInfosFrom(tools, toolInfos) ==
    IF tools = <<>> THEN [toolInfos |-> toolInfos, err |-> NoErr]
    ELSE IF Head(tools).Info = "err" THEN [toolInfos |-> <<>>, err |-> ErrInfo]
    ELSE genToolInfosFrom(Tail(tools), Append(toolInfos, Head(tools).Name))

genToolInfos(tools) == genToolInfosFrom(tools, <<>>)

\* the wiring calls from `steps` on, each returning early with its error
RECURSIVE addToGraph(_, _, _)
addToGraph(graph, steps, fails) ==
    IF steps = <<>> THEN [graph |-> graph, err |-> NoErr]
    ELSE IF Head(steps) \in fails THEN [graph |-> graph, err |-> Head(steps)]
    ELSE addToGraph(graph \cup {Head(steps)}, Tail(steps), fails)

\* registerStateOnce.Do(func() { err = compose.RegisterSerializableType(...) })
\* registerStateOnce is one sync.Once for the process: the function runs in
\* the first call only, whatever it returns, and only a call that runs it
\* has its err assigned. Returns that err and the process after the call.
registerStateOnceDo(e) ==
    IF e.onceDone
    THEN [err |-> NoErr, env |-> e]
    ELSE LET er == IF stepRegister \in e.fails THEN stepRegister ELSE NoErr
         IN  [err |-> er,
              env |-> [e EXCEPT !.onceDone = TRUE, !.registered = (er = NoErr)]]

\* NewAgent from `if err != nil { return }` after the registration on:
\* every step that fails returns (nil, err); the Agent is built from the
\* compiled graph only after the last step
newAgentAfterRegister(cfg, e, regErr) ==
    IF regErr # NoErr THEN [agent |-> NoAgent, err |-> regErr]
    ELSE LET ti == genToolInfos(cfg.Tools)
         IN  IF ti.err # NoErr THEN [agent |-> NoAgent, err |-> ti.err]
             ELSE IF stepChatModelWithTools \in e.fails
             THEN [agent |-> NoAgent, err |-> stepChatModelWithTools]
             ELSE IF stepNewToolNode \in e.fails
             THEN [agent |-> NoAgent, err |-> stepNewToolNode]
             ELSE LET g == addToGraph({}, GraphSteps(cfg.ToolReturnDirectly), e.fails)
                  IN  IF g.err # NoErr THEN [agent |-> NoAgent, err |-> g.err]
                      ELSE IF stepCompile \in e.fails
                      THEN [agent |-> NoAgent, err |-> stepCompile]
                      ELSE [agent |-> [graph |-> g.graph,
                                       toolInfos |-> ti.toolInfos,
                                       maxRunSteps |-> MaxRunSteps(cfg.MaxStep)],
                            err |-> NoErr]

\* NewAgent
NewAgent(cfg, e) == newAgentAfterRegister(cfg, e, registerStateOnceDo(e).err)

NewAgentInit ==
    /\ MaxStep \in 1..MaxStepBound
    /\ ToolReturnDirectly \in DirectReturnSets
    /\ Messages = <<>>
    /\ ReturnDirectlyToolCallID = ""
    /\ phase = "new"
    /\ next = ""
    /\ lastNode = START
    /\ step = 0
    /\ input = <<>>
    /\ given = <<>>
    /\ sr = NoStream
    /\ modelOutput = NoMsg
    /\ isToolCall = FALSE
    /\ toolsOutput = <<>>
    /\ toolsInput = NoMsg
    /\ trace = <<>>
    /\ final = NoMsg
    /\ err = NoErr
    /\ log = <<>>
    /\ MessageModifier = NoModifier
    /\ modelInput = <<>>
    /\ env \in [Tools : SeqsUpTo(Tools, MaxTools),
                 fails : {f \in SUBSET FailPoints : Cardinality(f) <= MaxFails},
                 onceDone : {FALSE}, registered : {FALSE}]
    /\ created = NotCreated
    /\ tcOrig = <<>>
    /\ tcChunks = <<>>
    /\ tcMerged = <<>>
    /\ runs = <<>>
    /\ states = <<>>
    /\ sharedErr = NoErr
    /\ StreamToolCallChecker = NoChecker
    /\ cancelled = {}

\* one call of NewAgent
CallNewAgent ==
    /\ phase = "new"
    /\ created' = NewAgent([Tools |-> env.Tools, MaxStep |-> MaxStep,
                            ToolReturnDirectly |-> ToolReturnDirectly], env)
    /\ env' = registerStateOnceDo(env).env
    /\ phase' = "built"
    /\ UNCHANGED <<config, Messages, ReturnDirectlyToolCallID, next, lastNode, step,
                   input, sr, modelOutput, isToolCall, toolsOutput, final, err, log,
                   given, modelInput, concatVars, concVars, ctxVars, toolsInput, trace>>

NewAgentNext == CallNewAgent

NewAgentSpec == NewAgentInit /\ [][NewAgentNext]_vars

\* ------------------------------------- several NewAgent calls in a process
MaxNewAgentCalls == 3
Callers == 1..MaxNewAgentCalls

\* a process in which nothing is registered yet and where the registration,
\* the compilation or a tool's Info may fail; no caller has called NewAgent
OnceInit ==
    /\ MaxStep \in 1..MaxStepBound
    /\ ToolReturnDirectly \in DirectReturnSets
    /\ Messages = <<>>
    /\ ReturnDirectlyToolCallID = ""
    /\ phase = "once"
    /\ next = ""
    /\ lastNode = START
    /\ step = 0
    /\ input = <<>>
    /\ given = <<>>
    /\ sr = NoStream
    /\ modelOutput = NoMsg
    /\ isToolCall = FALSE
    /\ toolsOutput = <<>>
    /\ toolsInput = NoMsg
    /\ trace = <<>>
    /\ final = NoMsg
    /\ err = NoErr
    /\ log = <<>>
    /\ MessageModifier = NoModifier
    /\ modelInput = <<>>
    /\ env \in [Tools : SeqsUpTo(Tools, 1),
                 fails : SUBSET {stepRegister, stepCompile},
                 onceDone : {FALSE}, registered : {FALSE}]
    /\ created = NotCreated
    /\ tcOrig = <<>>
    /\ tcChunks = <<>>
    /\ tcMerged = <<>>
    /\ runs = [c \in Callers |-> [pc |-> "idle", err |-> NoErr, created |-> NotCreated]]
    /\ states = <<>>
    /\ sharedErr = NoErr
    /\ StreamToolCallChecker = NoChecker
    /\ cancelled = {}

OnceFrame ==
    UNCHANGED <<config, Messages, ReturnDirectlyToolCallID, phase, next, lastNode,
                step, input, sr, modelOutput, isToolCall, toolsOutput, final, err,
                log, given, modelInput, concatVars, states, sharedErr, ctxVars,
                toolsInput, trace>>

\* caller c enters NewAgent and passes registerStateOnce.Do, which lets one
\* caller at a time through
CallRegisterStateOnce(c) ==
    /\ phase = "once" /\ runs[c].pc = "idle"
    /\ LET r == registerStateOnceDo(env)
       IN  /\ env' = r.env
           /\ runs' = [runs EXCEPT ![c] = [@ EXCEPT !.pc = "registered", !.err = r.err]]
    /\ created' = created
    /\ OnceFrame

\* caller c runs the rest of NewAgent and returns
ReturnNewAgent(c) ==
    /\ phase = "once" /\ runs[c].pc = "registered"
    /\ LET res == newAgentAfterRegister([Tools |-> env.Tools, MaxStep |-> MaxStep,
                                         ToolReturnDirectly |-> ToolReturnDirectly],
                                        env, runs[c].err)
       IN  /\ runs' = [runs EXCEPT ![c] = [@ EXCEPT !.pc = "returned", !.created = res]]
           /\ created' = res
    /\ env' = env
    /\ OnceFrame

OnceNext ==
    \E c \in Callers :
        \/ CallRegisterStateOnce(c)
        \/ ReturnNewAgent(c)

OnceSpec == OnceInit /\ [][OnceNext]_vars

\* ------------------------------------------------- concatToolCalls
\* the nil Index of a tool call that is not streamed in pieces
NoIndex == -1

\* ToolCall of the streaming protocol; Arguments is the string as the
\* sequence of its characters
ToolCallChunk(index, id, type, name, arguments) ==
    [Index |-> index, ID |-> id, Type |-> type, Name |-> name, Arguments |-> arguments]

ArgStrings == SeqsUpTo({"a", "b"}, MaxArgLen)

\* the requests whose streaming is followed: identifier, type and name known,
\* any argument string
OrigRequests ==
    {ToolCallChunk(i, "c1", "function", n, a) : i \in {0, 1}, n \in ToolNames, a \in ArgStrings}

\* the ways of cutting a string of length n into k pieces, empty pieces
\* allowed: the end positions of the pieces
Cuts(n, k) ==
    {c \in [1..k -> 0..n] : c[k] = n /\ \A j \in 1..(k - 1) : c[j] <= c[j + 1]}

\* the fragments of `orig` for the cut c: the first one carries identifier,
\* type and name, every one its piece of the arguments
Pieces(orig, c) ==
    [j \in 1..Len(c) |->
        ToolCallChunk(orig.Index,
                      IF j = 1 THEN orig.ID ELSE "",
                      IF j = 1 THEN orig.Type ELSE "",
                      IF j = 1 THEN orig.Name ELSE "",
                      SubSeq(orig.Arguments, (IF j = 1 THEN 0 ELSE c[j - 1]) + 1, c[j]))]

\* a fragment of another request arriving in between: a complete request
\* without index, or a piece of the request streamed under the other index
ForeignChunks(orig) ==
    { ToolCallChunk(NoIndex, "c2", "function", "calc", <<"b">>),
      ToolCallChunk(1 - orig.Index, "c2", "function", "calc", <<"b">>) }

InsertAt(seq, p, x) == SubSeq(seq, 1, p) \o <<x>> \o SubSeq(seq, p + 1, Len(seq))

ChunkLists(orig) ==
    LET own == {Pieces(orig, c) : c \in UNION {Cuts(Len(orig.Arguments), k) : k \in 1..(MaxChunks + 1)}}
    IN  own \cup UNION {{InsertAt(o, p, x) : p \in 0..Len(o), x \in ForeignChunks(orig)} : o \in own}

\* positions of the chunks streamed under index i, in order of arrival
IndexGroup(chunks, i) == SelectSeq([k \in 1..Len(chunks) |-> k], LAMBDA k : chunks[k].Index = i)

\* the keys of the map indexGroups
IndexKeys(chunks) == {chunks[k].Index : k \in 1..Len(chunks)} \ {NoIndex}

\* the orders in which a range over the map may visit its keys
KeyOrders(keys) ==
    {o \in SeqsUpTo(keys, Cardinality(keys)) : {o[k] : k \in 1..Len(o)} = keys}

\* variant: the arguments are taken from the first fragment that has some
RECURSIVE mergeChunksArgsOnce(_, _, _)
mergeChunksArgsOnce(result, chunks, chunkIndices) ==
    IF chunkIndices = <<>> THEN result
    ELSE LET chunk == chunks[Head(chunkIndices)]
         IN  mergeChunksArgsOnce(
                 [Index |-> result.Index,
                  ID |-> IF chunk.ID # "" THEN chunk.ID ELSE result.ID,
                  Type |-> IF chunk.Type # "" THEN chunk.Type ELSE result.Type,
                  Name |-> IF chunk.Name # "" THEN chunk.Name ELSE result.Name,
                  Arguments |-> IF result.Arguments # <<>> THEN result.Arguments
                                ELSE chunk.Arguments],
                 chunks, Tail(chunkIndices))

\* the inner loop of concatToolCalls over the chunks of one index: a field
\* that is not empty in the chunk is assigned to the result, the arguments
\* are written to the builder
RECURSIVE mergeChunks(_, _, _)
mergeChunks(result, chunks, chunkIndices) ==
    IF chunkIndices = <<>> THEN result
    ELSE LET chunk == chunks[Head(chunkIndices)]
         IN  mergeChunks(
                 [Index |-> result.Index,
                  ID |-> IF chunk.ID # "" THEN chunk.ID ELSE result.ID,
                  Type |-> IF chunk.Type # "" THEN chunk.Type ELSE result.Type,
                  Name |-> IF chunk.Name # "" THEN chunk.Name ELSE result.Name,
                  Arguments |-> IF chunk.Arguments # <<>>
                                THEN result.Arguments \o chunk.Arguments
                                ELSE result.Arguments],
                 chunks, Tail(chunkIndices))

\* concatToolCalls: the chunks without index as they are, then one merged
\* request per index, the indexes visited in the order `order`. Index is
\* &index, the address of the range variable: with one variable per
\* iteration it is the request's own index, with one variable for the whole
\* loop (sharedLoopVar, Go before 1.22) every merged request ends up with the
\* index visited last.
concatToolCalls(chunks, order, sharedLoopVar) ==
    SelectSeq(chunks, LAMBDA chunk : chunk.Index = NoIndex)
    \o [k \in 1..Len(order) |->
           mergeChunks(ToolCallChunk(IF sharedLoopVar THEN order[Len(order)] ELSE order[k],
                                     "", "", "", <<>>),
                       chunks, IndexGroup(chunks, order[k]))]

ConcatInit ==
    /\ MaxStep = 1
    /\ ToolReturnDirectly = {}
    /\ Messages = <<>>
    /\ ReturnDirectlyToolCallID = ""
    /\ phase = "concat"
    /\ next = ""
    /\ lastNode = START
    /\ step = 0
    /\ input = <<>>
    /\ given = <<>>
    /\ sr = NoStream
    /\ modelOutput = NoMsg
    /\ isToolCall = FALSE
    /\ toolsOutput = <<>>
    /\ toolsInput = NoMsg
    /\ trace = <<>>
    /\ final = NoMsg
    /\ err = NoErr
    /\ log = <<>>
    /\ MessageModifier = NoModifier
    /\ modelInput = <<>>
    /\ env = <<>>
    /\ created = NotCreated
    /\ tcOrig \in OrigRequests
    /\ tcChunks \in ChunkLists(tcOrig)
    /\ tcMerged = <<>>
    /\ runs = <<>>
    /\ states = <<>>
    /\ sharedErr = NoErr
    /\ StreamToolCallChecker = NoChecker
    /\ cancelled = {}

\* one call of concatToolCalls
CallConcatToolCalls ==
    /\ phase = "concat"
    /\ \E order \in KeyOrders(IndexKeys(tcChunks)), sharedLoopVar \in BOOLEAN :
         tcMerged' = concatToolCalls(tcChunks, order, sharedLoopVar)
    /\ phase' = "merged"
    /\ UNCHANGED <<config, Messages, ReturnDirectlyToolCallID, next, lastNode, step,
                   input, sr, modelOutput, isToolCall, toolsOutput, final, err, log,
                   given, modelInput, ctorVars, tcOrig, tcChunks, concVars, ctxVars,
                   toolsInput, trace>>

ConcatNext == CallConcatToolCalls

ConcatSpec == ConcatInit /\ [][ConcatNext]_vars

\* fragments of one index whose identifier, type and name are each absent or
\* one of two values
FieldChunks ==
    {ToolCallChunk(0, id, type, name, <<>>) :
        id \in {"", "c1", "c2"}, type \in {"", "function"}, name \in {""} \cup ToolNames}

\* concatToolCalls on any list of such fragments
MergeInit ==
    /\ MaxStep = 1
    /\ ToolReturnDirectly = {}
    /\ Messages = <<>>
    /\ ReturnDirectlyToolCallID = ""
    /\ phase = "concat"
    /\ next = ""
    /\ lastNode = START
    /\ step = 0
    /\ input = <<>>
    /\ given = <<>>
    /\ sr = NoStream
    /\ modelOutput = NoMsg
    /\ isToolCall = FALSE
    /\ toolsOutput = <<>>
    /\ toolsInput = NoMsg
    /\ trace = <<>>
    /\ final = NoMsg
    /\ err = NoErr
    /\ log = <<>>
    /\ MessageModifier = NoModifier
    /\ modelInput = <<>>
    /\ env = <<>>
    /\ created = NotCreated
    /\ tcOrig = <<>>
    /\ tcChunks \in SeqsUpTo(FieldChunks, MaxChunks)
    /\ tcMerged = <<>>
    /\ runs = <<>>
    /\ states = <<>>
    /\ sharedErr = NoErr
    /\ StreamToolCallChecker = NoChecker
    /\ cancelled = {}

MergeSpec == MergeInit /\ [][ConcatNext]_vars

\* ------------------------------- runs of one agent, interleaved
RunIds == {1, 2}

\* the message `m` as created in run r
RunTag(r, m) == [m EXCEPT !.uid = <<r>> \o @]

RunTagAll(r, msgs) == [k \in 1..Len(msgs) |-> RunTag(r, msgs[k])]

\* what the model answers in these runs: text, or one request for a tool
\* that returns directly or for one that does not; both runs use the same
\* request identifier
ConcStreams ==
    { <<Fragment("t", <<>>)>>,
      <<Fragment("", <<ToolCall("c1", "search")>>)>>,
      <<Fragment("", <<ToolCall("c1", "calc")>>)>> }

IdleRun ==
    [st |-> 0, phase |-> "idle", next |-> "", lastNode |-> START, step |-> 0,
     input |-> <<>>, modelOutput |-> NoMsg, toolsOutput |-> <<>>,
     final |-> NoMsg, err |-> NoErr, log |-> <<>>, ownErr |-> NoErr]

ConcInit ==
    /\ MaxStep = MaxStepBound
    /\ ToolReturnDirectly \in DirectReturnSets
    /\ Messages = <<>>
    /\ ReturnDirectlyToolCallID = ""
    /\ phase = "runs"
    /\ next = ""
    /\ lastNode = START
    /\ step = 0
    /\ input = <<>>
    /\ given = <<>>
    /\ sr = NoStream
    /\ modelOutput = NoMsg
    /\ isToolCall = FALSE
    /\ toolsOutput = <<>>
    /\ toolsInput = NoMsg
    /\ trace = <<>>
    /\ final = NoMsg
    /\ err = NoErr
    /\ log = <<>>
    /\ MessageModifier = NoModifier
    /\ modelInput = <<>>
    /\ env = <<>>
    /\ created = NotCreated
    /\ tcOrig = <<>>
    /\ tcChunks = <<>>
    /\ tcMerged = <<>>
    /\ runs = [r \in RunIds |-> IdleRun]
    /\ states = <<>>
    /\ sharedErr = NoErr
    /\ StreamToolCallChecker = NoChecker
    /\ cancelled = {}

\* variant: the generator hands every run the same state object
newStateShared(objs) == 1

\* the address of the object the generator of WithGenLocalState returns: a
\* new one at every call
newState(objs) == Len(objs) + 1

\* the variables a step of a run leaves alone, the variable `err` of
\* buildReturnDirectly apart
ConcFrame ==
    UNCHANGED <<config, Messages, ReturnDirectlyToolCallID, phase, next, lastNode,
                step, input, sr, modelOutput, isToolCall, toolsOutput, final, err,
                log, given, modelInput, ctorVars, concatVars, ctxVars,
                toolsInput, trace>>

ConcUnchanged == ConcFrame /\ UNCHANGED sharedErr

\* what compose.ProcessState may return when it is asked for the run's state
ErrProcessState == "ErrProcessState"
ProcessStateErrs == {NoErr, ErrProcessState}

\* Generate / Stream: the engine asks the generator for the run's state
RunStart(r) ==
    /\ runs[r].phase = "idle"
    /\ LET a == newState(states)
           in == <<RunTag(r, Message(<<0, 1>>, "user", "q", <<>>, ""))>>
       IN  /\ states' = IF a > Len(states)
                         THEN Append(states, GenLocalState)
                         ELSE [states EXCEPT ![a] = GenLocalState]
           /\ runs' = [runs EXCEPT ![r] =
                         [@ EXCEPT !.st = a, !.phase = "node", !.next = nodeKeyModel,
                                   !.input = in, !.log = in]]
    /\ ConcUnchanged

\* the chat model node of run r and the branch after it
RunChatModel(r) ==
    LET run == runs[r]
    IN  /\ run.phase = "node" /\ run.next = nodeKeyModel
        /\ run.step < MaxRunSteps(MaxStep)
        /\ states' = [states EXCEPT ![run.st] =
                         modelPreHandle(run.input, @, MessageModifier).state]
        /\ \E s \in ConcStreams :
             LET out == RunTag(r, ConcatMessages(s, <<run.step + 1, 0>>))
                 chk == firstChunkStreamToolCallChecker(StreamReader(s), 0)
                 b == modelPostBranchCondition(chk)
             IN  runs' = [runs EXCEPT ![r] =
                           [@ EXCEPT !.step = @ + 1,
                                     !.lastNode = nodeKeyModel,
                                     !.modelOutput = out,
                                     !.log = Append(@, out),
                                     !.next = b.endNode,
                                     !.phase = IF b.endNode = END THEN "done" ELSE "node",
                                     !.final = IF b.endNode = END THEN out ELSE NoMsg]]
        /\ ConcUnchanged

\* the tools node of run r
RunToolsNode(r) ==
    LET run == runs[r]
    IN  /\ run.phase = "node" /\ run.next = nodeKeyTools
        /\ run.step < MaxRunSteps(MaxStep)
        /\ states' = [states EXCEPT ![run.st] =
                         toolsNodePreHandle(run.modelOutput, @, ToolReturnDirectly).state]
        /\ \E outcome \in ToolOutcomes(run.modelOutput.ToolCalls) :
             LET res == RunTagAll(r, ToolResults(run.modelOutput.ToolCalls, outcome,
                                                 1, run.step + 1))
             IN  runs' = [runs EXCEPT ![r] =
                           [@ EXCEPT !.step = @ + 1,
                                     !.lastNode = nodeKeyTools,
                                     !.toolsOutput = res,
                                     !.log = @ \o res,
                                     !.phase = "branch"]]
        /\ ConcUnchanged

\* the successor of the tools node of run r, read from the run's state
RunToolsPostBranch(r) ==
    LET run == runs[r]
        succ == toolsSuccessor(ToolReturnDirectly, states[run.st].ReturnDirectlyToolCallID)
    IN  /\ run.phase = "branch" /\ run.lastNode = nodeKeyTools
        /\ runs' = [runs EXCEPT ![r] =
                      [@ EXCEPT !.next = succ,
                                !.input = IF succ = nodeKeyModel THEN run.toolsOutput ELSE @,
                                !.phase = "node"]]
        /\ UNCHANGED states
        /\ ConcUnchanged

\* the direct_return node of run r, first half: `err = compose.ProcessState
\* (...)`. err is the named result of buildReturnDirectly, which the closure
\* directReturn captured: one variable for all the runs of the agent.
RunDirectReturn(r) ==
    LET run == runs[r]
    IN  /\ run.phase = "node" /\ run.next = nodeKeyDirectReturn
        /\ run.step < MaxRunSteps(MaxStep)
        /\ \E e \in ProcessStateErrs :
             /\ sharedErr' = e
             /\ runs' = [runs EXCEPT ![r] =
                           [@ EXCEPT !.step = @ + 1,
                                     !.lastNode = nodeKeyDirectReturn,
                                     !.phase = "extract",
                                     !.ownErr = e]]
        /\ UNCHANGED states
        /\ ConcFrame

\* second half of the direct_return node of run r: `if err != nil { return
\* nil, err }`, then the message found or ErrNoValue
RunDirectReturnResult(r) ==
    LET run == runs[r]
        res == directReturn(run.toolsOutput, states[run.st].ReturnDirectlyToolCallID)
        found == IF run.ownErr = NoErr THEN res ELSE [msg |-> NoMsg, err |-> ErrNoValue]
        out == IF sharedErr # NoErr THEN [msg |-> NoMsg, err |-> sharedErr] ELSE found
    IN  /\ run.phase = "extract"
        /\ runs' = [runs EXCEPT ![r] =
                      [@ EXCEPT !.phase = "done",
                                !.next = IF out.err = NoErr THEN END ELSE @,
                                !.final = out.msg,
                                !.err = out.err]]
        /\ UNCHANGED states
        /\ ConcUnchanged

\* the step bound of run r
RunExceedMaxSteps(r) ==
    LET run == runs[r]
    IN  /\ run.phase = "node"
        /\ run.step >= MaxRunSteps(MaxStep)
        /\ runs' = [runs EXCEPT ![r] = [@ EXCEPT !.phase = "done", !.err = ErrExceedMaxSteps]]
        /\ UNCHANGED states
        /\ ConcUnchanged

ConcNext ==
    \E r \in RunIds :
        \/ RunStart(r)
        \/ RunChatModel(r)
        \/ RunToolsNode(r)
        \/ RunToolsPostBranch(r)
        \/ RunDirectReturn(r)
        \/ RunDirectReturnResult(r)
        \/ RunExceedMaxSteps(r)

ConcSpec == ConcInit /\ [][ConcNext]_vars

\* ------------------------------------------ modelPreHandle on its own
\* messages a history or an input of the chat model node is made of
SomeMessages ==
    { Message(<<0, 1>>, "user", "q", <<>>, ""),
      Message(<<1, 0>>, "assistant", "", <<ToolCall("c1", "search")>>, ""),
      Message(<<2, 1>>, "tool", "r", <<>>, "c1") }

PreHandleInit ==
    /\ MaxStep = 1
    /\ ToolReturnDirectly = {}
    /\ MessageModifier \in Modifiers \cup {NoModifier}
    /\ Messages \in SeqsUpTo(SomeMessages, MaxChunks)
    /\ ReturnDirectlyToolCallID = ""
    /\ phase = "prehandle"
    /\ next = nodeKeyModel
    /\ lastNode = START
    /\ step = 0
    /\ input \in SeqsUpTo(SomeMessages, MaxChunks)
    /\ given = <<>>
    /\ sr = NoStream
    /\ modelOutput = NoMsg
    /\ isToolCall = FALSE
    /\ toolsOutput = <<>>
    /\ toolsInput = NoMsg
    /\ trace = <<>>
    /\ final = NoMsg
    /\ err = NoErr
    /\ log = Messages \o input
    /\ modelInput = <<>>
    /\ AuxIdle

\* one call of modelPreHandle
CallModelPreHandle ==
    /\ phase = "prehandle"
    /\ LET pre == modelPreHandle(input, state, MessageModifier)
       IN  /\ Messages' = pre.state.Messages
           /\ ReturnDirectlyToolCallID' = pre.state.ReturnDirectlyToolCallID
           /\ modelInput' = pre.out
    /\ phase' = "prehandled"
    /\ UNCHANGED <<config, next, lastNode, step, input, sr, modelOutput, isToolCall,
                   toolsOutput, final, err, log, given, auxVars, toolsInput, trace>>

PreHandleNext == CallModelPreHandle

PreHandleSpec == PreHandleInit /\ [][PreHandleNext]_vars

\* ------------------ two agents, with and without ToolReturnDirectly
\* Agent 1 is built with the non-empty set ToolReturnDirectly, agent 2 with
\* the empty one. One run of each is followed; the model and the tools
\* answer both runs alike.
AgentIds == {1, 2}
ToolReturnDirectlyOf(a) == IF a = 1 THEN ToolReturnDirectly ELSE {}

EquivInit ==
    /\ MaxStep = MaxStepBound
    /\ ToolReturnDirectly \in (SUBSET ToolNames) \ {{}}
    /\ MessageModifier = NoModifier
    /\ Messages = <<>>
    /\ ReturnDirectlyToolCallID = ""
    /\ phase = "equiv"
    /\ next = ""
    /\ lastNode = START
    /\ step = 0
    /\ input = <<>>
    /\ given = <<>>
    /\ sr = NoStream
    /\ modelOutput = NoMsg
    /\ isToolCall = FALSE
    /\ toolsOutput = <<>>
    /\ toolsInput = NoMsg
    /\ trace = <<>>
    /\ final = NoMsg
    /\ err = NoErr
    /\ log = <<>>
    /\ modelInput = <<>>
    /\ env = <<>>
    /\ created = NotCreated
    /\ tcOrig = <<>>
    /\ tcChunks = <<>>
    /\ tcMerged = <<>>
    /\ \E in \in Inputs :
         runs = [a \in AgentIds |->
                   [IdleRun EXCEPT !.st = a, !.phase = "node", !.next = nodeKeyModel,
                                   !.input = in, !.log = in]]
    /\ states = [a \in AgentIds |-> GenLocalState]
    /\ sharedErr = NoErr
    /\ StreamToolCallChecker = NoChecker
    /\ cancelled = {}

EquivFrame ==
    UNCHANGED <<config, Messages, ReturnDirectlyToolCallID, phase, next, lastNode,
                step, input, sr, modelOutput, isToolCall, toolsOutput, final, err,
                log, given, modelInput, ctorVars, concatVars, ctxVars, sharedErr,
                toolsInput, trace>>

\* the runs that are about to execute the node
RunsAt(node) ==
    {a \in AgentIds : /\ runs[a].phase = "node" /\ runs[a].next = node
                      /\ runs[a].step < MaxRunSteps(MaxStep)}

\* the run after the failure e of the node it was about to execute
FailedRun(run, e) ==
    [run EXCEPT !.step = @ + 1, !.lastNode = run.next, !.phase = "done", !.err = e]

\* the chat model node and the branch after it: the model fails, or answers
\* with the stream s, whose Recv number failAt fails (0: none)
EquivChatModel ==
    /\ RunsAt(nodeKeyModel) # {}
    /\ states' = [a \in AgentIds |->
                    IF a \in RunsAt(nodeKeyModel)
                    THEN modelPreHandle(runs[a].input, states[a], MessageModifier).state
                    ELSE states[a]]
    /\ \/ runs' = [a \in AgentIds |->
                     IF a \in RunsAt(nodeKeyModel)
                     THEN FailedRun(runs[a], ErrModel) ELSE runs[a]]
       \/ \E s \in ModelStreams, failAt \in 0..1 :
             runs' = [a \in AgentIds |->
                       IF a \notin RunsAt(nodeKeyModel) THEN runs[a]
                       ELSE LET run == runs[a]
                                out == ConcatMessages(s, <<run.step + 1, 0>>)
                                chk == toolCallChecker(StreamToolCallChecker,
                                           branchCheckerCtx(ctxRun, ctxNewAgent),
                                           StreamReader(s), failAt, cancelled)
                                b == modelPostBranchCondition(chk)
                            IN  IF b.err # NoErr
                                THEN [FailedRun(run, b.err) EXCEPT
                                          !.modelOutput = out, !.log = Append(@, out)]
                                ELSE [run EXCEPT
                                          !.step = @ + 1,
                                          !.lastNode = nodeKeyModel,
                                          !.modelOutput = out,
                                          !.log = Append(@, out),
                                          !.next = b.endNode,
                                          !.phase = IF b.endNode = END THEN "done" ELSE "node",
                                          !.final = IF b.endNode = END THEN out ELSE NoMsg]]
    /\ EquivFrame

\* the tools node and what follows it in the agent's graph: the tools fail,
\* or answer the requests as `outcome` says
EquivToolsNode ==
    /\ RunsAt(nodeKeyTools) # {}
    /\ states' = [a \in AgentIds |->
                    IF a \in RunsAt(nodeKeyTools)
                    THEN toolsNodePreHandle(runs[a].modelOutput, states[a],
                                            ToolReturnDirectlyOf(a)).state
                    ELSE states[a]]
    /\ \/ runs' = [a \in AgentIds |->
                     IF a \in RunsAt(nodeKeyTools)
                     THEN FailedRun(runs[a], ErrTool) ELSE runs[a]]
       \/ \E outcome \in [1..MaxCalls -> {"ok", "drop"}] :
             runs' = [a \in AgentIds |->
                       IF a \notin RunsAt(nodeKeyTools) THEN runs[a]
                       ELSE LET run == runs[a]
                                res == ToolResults(run.modelOutput.ToolCalls, outcome,
                                                   1, run.step + 1)
                                succ == toolsSuccessor(ToolReturnDirectlyOf(a),
                                            states'[a].ReturnDirectlyToolCallID)
                            IN  [run EXCEPT
                                    !.step = @ + 1,
                                    !.lastNode = nodeKeyTools,
                                    !.toolsOutput = res,
                                    !.log = @ \o res,
                                    !.next = succ,
                                    !.input = IF succ = nodeKeyModel THEN res ELSE @]]
    /\ EquivFrame

\* the direct_return node
EquivDirectReturn ==
    /\ RunsAt(nodeKeyDirectReturn) # {}
    /\ runs' = [a \in AgentIds |->
                  IF a \notin RunsAt(nodeKeyDirectReturn) THEN runs[a]
                  ELSE LET run == runs[a]
                           res == directReturn(run.toolsOutput,
                                               states[a].ReturnDirectlyToolCallID)
                       IN  [run EXCEPT
                               !.step = @ + 1,
                               !.lastNode = nodeKeyDirectReturn,
                               !.phase = "done",
                               !.next = IF res.err = NoErr THEN END ELSE @,
                               !.final = res.msg,
                               !.err = res.err]]
    /\ UNCHANGED states
    /\ EquivFrame

\* the step bound
EquivExceedMaxSteps ==
    LET over == {a \in AgentIds : /\ runs[a].phase = "node"
                                  /\ runs[a].step >= MaxRunSteps(MaxStep)}
    IN  /\ over # {}
        /\ runs' = [a \in AgentIds |->
                      IF a \in over
                      THEN [runs[a] EXCEPT !.phase = "done", !.err = ErrExceedMaxSteps]
                      ELSE runs[a]]
        /\ UNCHANGED states
        /\ EquivFrame

EquivNext ==
    \/ EquivChatModel
    \/ EquivToolsNode
    \/ EquivDirectReturn
    \/ EquivExceedMaxSteps

EquivSpec == EquivInit /\ [][EquivNext]_vars

\* -------------------------------------- toolsNodePreHandle on its own
ErrPanic == "panic"

\* the state a tools node is entered with, first or resumed: any history, a
\* marker left by an earlier execution or none
ToolsPreHandleInit ==
    /\ MaxStep = 1
    /\ ToolReturnDirectly \in DirectReturnSets
    /\ MessageModifier = NoModifier
    /\ Messages \in SeqsUpTo(SomeMessages, MaxChunks)
    /\ ReturnDirectlyToolCallID \in {"", "c1"}
    /\ phase = "toolsPrehandle"
    /\ next = nodeKeyTools
    /\ lastNode = nodeKeyModel
    /\ step = 0
    /\ input = <<>>
    /\ given = <<>>
    /\ sr = NoStream
    /\ modelOutput \in {NoMsg} \cup {Message(<<3, 0>>, "assistant", "", c, "") :
                                       c \in ToolCallLists \ {<<>>}}
    /\ isToolCall = FALSE
    /\ toolsOutput = <<>>
    /\ toolsInput = NoMsg
    /\ trace = <<>>
    /\ final = NoMsg
    /\ err = NoErr
    /\ log = <<>>
    /\ modelInput = <<>>
    /\ env = <<>>
    /\ created = NotCreated
    /\ tcOrig = <<>>
    /\ tcChunks = <<>>
    /\ tcMerged = <<>>
    /\ runs = <<>>
    /\ states = <<state>>
    /\ sharedErr = NoErr
    /\ StreamToolCallChecker = NoChecker
    /\ cancelled = {}

\* one call of toolsNodePreHandle; `states` keeps the state it was called with
CallToolsNodePreHandle ==
    /\ phase = "toolsPrehandle"
    /\ LET pre == toolsNodePreHandle(modelOutput, state, ToolReturnDirectly)
       IN  /\ Messages' = pre.state.Messages
           /\ ReturnDirectlyToolCallID' = pre.state.ReturnDirectlyToolCallID
           /\ toolsInput' = pre.out
           /\ err' = IF pre.panic THEN ErrPanic ELSE NoErr
    /\ phase' = "toolsPrehandled"
    /\ UNCHANGED <<config, next, lastNode, step, input, sr, modelOutput, isToolCall,
                   toolsOutput, final, log, given, modelInput, auxVars, trace>>

ToolsPreHandleNext == CallToolsNodePreHandle

ToolsPreHandleSpec == ToolsPreHandleInit /\ [][ToolsPreHandleNext]_vars

\* ------------------------- getReturnDirectlyToolCallID on its own
\* assistant messages with up to MaxCalls requests, identifiers repeated or
\* empty included
CallLists ==
    SeqsUpTo({ToolCall(i, n) : i \in {"", "c1", "c2"}, n \in ToolNames}, MaxCalls)

ReturnDirectlyInit ==
    /\ MaxStep = 1
    /\ ToolReturnDirectly \in SUBSET ToolNames
    /\ Messages = <<>>
    /\ ReturnDirectlyToolCallID = ""
    /\ phase = "call"
    /\ next = ""
    /\ lastNode = START
    /\ step = 0
    /\ input = <<>>
    /\ given = <<>>
    /\ sr = NoStream
    /\ modelOutput \in {Message(<<1, 0>>, "assistant", "", c, "") : c \in CallLists}
    /\ isToolCall = FALSE
    /\ toolsOutput = <<>>
    /\ toolsInput = NoMsg
    /\ trace = <<>>
    /\ final = NoMsg
    /\ err = NoErr
    /\ log = <<>>
    /\ MessageModifier = NoModifier
    /\ modelInput = <<>>
    /\ AuxIdle

\* one call of getReturnDirectlyToolCallID, its result kept where
\* toolsNodePreHandle stores it
GetReturnDirectlyToolCallID ==
    /\ phase = "call"
    /\ ReturnDirectlyToolCallID' =
           getReturnDirectlyToolCallID(modelOutput, ToolReturnDirectly)
    /\ phase' = "returned"
    /\ UNCHANGED <<config, Messages, next, lastNode, step, input, sr, modelOutput,
                   isToolCall, toolsOutput, final, err, log, given, modelInput, auxVars, toolsInput, trace>>

ReturnDirectlyNext == GetReturnDirectlyToolCallID

ReturnDirectlySpec == ReturnDirectlyInit /\ [][ReturnDirectlyNext]_vars

TypeOK ==
    /\ phase \in {"node", "branch", "done", "check", "checked", "checkedFull", "call", "returned", "runs",
                 "new", "built", "concat", "merged", "prehandle", "prehandled",
                 "toolsPrehandle", "toolsPrehandled", "equiv", "once"}
    /\ step \in 0..MaxStep

\* ---------------------------------------------------------------- claims
Nodes == {nodeKeyModel, nodeKeyTools, nodeKeyDirectReturn}

\* errors of a capability call or of a stream read
FailureErrs == {ErrModel, ErrTool, ErrRecv}

Min(S) == CHOOSE k \in S : \A j \in S : k <= j

\* positions of the requests of `msg` whose tool is configured to return directly
EligibleCalls(msg) == {k \in 1..Len(msg.ToolCalls) : msg.ToolCalls[k].Name \in ToolReturnDirectly}

\* positions of the results of the last tools node execution tagged `id`
ResultsFor(id) == {k \in 1..Len(toolsOutput) : toolsOutput[k].ToolCallID = id}

\* the tools node has run on the last model turn and its successor is chosen
AfterToolsBranch ==
    \/ lastNode = nodeKeyTools /\ phase = "node"
    \/ lastNode = nodeKeyTools /\ phase = "done" /\ err = ErrExceedMaxSteps
    \/ lastNode = nodeKeyDirectReturn

C2_FirstEligibleResultIsReturned ==
    ( /\ ToolReturnDirectly # {}
      /\ AfterToolsBranch
      /\ EligibleCalls(modelOutput) # {}
      /\ ResultsFor(modelOutput.ToolCalls[Min(EligibleCalls(modelOutput))].ID) # {} )
    => LET X == modelOutput.ToolCalls[Min(EligibleCalls(modelOutput))].ID
       IN  /\ next # nodeKeyModel
           /\ (phase = "done" /\ err = NoErr) =>
                  /\ lastNode = nodeKeyDirectReturn
                  /\ final = toolsOutput[Min(ResultsFor(X))]

C5_PostModelBranch ==
    (lastNode = nodeKeyModel /\ phase \in {"node", "done"} /\ err \in {NoErr, ErrExceedMaxSteps})
    => IF isToolCall
       THEN next = nodeKeyTools /\ final = NoMsg
       ELSE /\ next = END /\ phase = "done" /\ err = NoErr
            /\ final = modelOutput
            /\ final.uid = <<step, 0>>

\* the first model turn has no tool call: one model call, its message returned
C5_Witness ==
    /\ phase = "done" /\ err = NoErr /\ step = 1 /\ ~isToolCall
    /\ final = modelOutput /\ final.uid = <<1, 0>>

\* C6 as stated: at the end of a run the history holds every message of the
\* run, the final assistant message included (length 2 for one user message
\* answered directly, length 4 after one tool round).
C6_HistoryHoldsEveryMessage ==
    (phase = "done" /\ err = NoErr) =>
        /\ Messages = log
        /\ (Len(log) = 2) => Len(Messages) = 2
        /\ (Len(log) = 4) => Len(Messages) = 4

\* C6 amended: at the end of a run the history holds, once each and in causal
\* order, every message of the run except the run's output: the input, each
\* assistant message that reached the tools node and each tool result fed
\* back to the model. The final assistant message (or, on direct return, the
\* results of the last tools node execution) is not appended: length 1 for
\* one user message answered directly, length 3 after one tool round.
C6_HistoryHoldsAllButOutput ==
    (phase = "done" /\ err = NoErr) =>
        /\ \A i, j \in 1..Len(Messages) : Messages[i].uid = Messages[j].uid => i = j
        /\ IF lastNode = nodeKeyModel
           THEN log = Append(Messages, final)
           ELSE /\ log = Messages \o toolsOutput
                /\ \E k \in 1..Len(toolsOutput) : toolsOutput[k] = final
        /\ (Len(log) = 2) => Len(Messages) = 1
        /\ (Len(log) = 4 /\ lastNode = nodeKeyModel) => Len(Messages) = 3

\* one user message, one tool-calling turn, one tool result, a final text turn
C6_Witness ==
    /\ phase = "done" /\ err = NoErr /\ lastNode = nodeKeyModel
    /\ Len(log) = 4 /\ log[1].Role = "user" /\ log[3].Role = "tool"
    /\ Len(Messages) = 3 /\ final = log[4]

\* positions of the fragments that are not empty in both fields
Signals(chunks) ==
    {k \in 1..Len(chunks) : chunks[k].Content # "" \/ chunks[k].ToolCalls # <<>>}

\* C7: without a read failure the checker returns what the first fragment
\* that is not empty in both fields decides: true if it carries tool calls,
\* false if it carries content only, false if there is no such fragment.
C7_FirstSignalDecides ==
    (phase = "checked" /\ err = NoErr) =>
        isToolCall = ( /\ Signals(given) # {}
                       /\ given[Min(Signals(given))].ToolCalls # <<>> )

\* an empty priming fragment followed by a fragment with tool calls
C7_Witness ==
    /\ phase = "checked" /\ err = NoErr /\ isToolCall
    /\ Len(given) = 2
    /\ given[1] = Fragment("", <<>>)
    /\ given[2].ToolCalls # <<>>

\* C8: whatever the checker returns (true, false on content, false at the end
\* of the stream, a read error), the stream it was given is closed on return.
C8_StreamClosedOnReturn ==
    phase = "checked" => sr.state = "closed"

\* a read error on the second Recv, the stream closed all the same
C8_Witness ==
    /\ phase = "checked" /\ err = ErrRecv /\ sr.failed /\ sr.state = "closed"
    /\ Len(given) = 2 /\ given[1] = Fragment("", <<>>)

\* C9: a failed read of the model output stream during detection ends the
\* run with that error: no successor is selected, the tools node does not
\* run and no message is returned.
C9_ReadFailureAbortsRun ==
    /\ sr.failed =>
          /\ phase = "done" /\ err = ErrRecv
          /\ next = "" /\ lastNode = nodeKeyModel
          /\ final = NoMsg
    /\ err = ErrRecv => sr.failed

\* the read fails in the second model turn
C9_Witness ==
    /\ sr.failed /\ phase = "done" /\ err = ErrRecv /\ step = 3

C11_FirstEligibleRequestIsRecorded ==
    phase = "returned" =>
        LET calls == modelOutput.ToolCalls
            elig == EligibleCalls(modelOutput)
        IN  /\ ToolReturnDirectly = {} => ReturnDirectlyToolCallID = ""
            /\ elig = {} => ReturnDirectlyToolCallID = ""
            /\ elig # {} =>
                   /\ ReturnDirectlyToolCallID = calls[Min(elig)].ID
                   /\ \A k \in elig :
                          calls[k].ID # calls[Min(elig)].ID
                              => ReturnDirectlyToolCallID # calls[k].ID

\* three requests, the first not eligible, the second and third eligible with
\* different identifiers: the second one's identifier is returned
C11_Witness ==
    /\ phase = "returned"
    /\ Len(modelOutput.ToolCalls) = 3
    /\ EligibleCalls(modelOutput) = {2, 3}
    /\ modelOutput.ToolCalls[2].ID = "c1" /\ modelOutput.ToolCalls[3].ID = "c2"
    /\ ReturnDirectlyToolCallID = "c1"

\* the state object of run r
StateOf(r) == states[runs[r].st]

\* how many messages of its own log run r has appended to its history: all
\* but the model output that was not (yet) handed to the tools node, or all
\* but the results of the last tools node execution
OwnHistoryLen(r) ==
    IF runs[r].lastNode = START THEN 0
    ELSE IF runs[r].lastNode = nodeKeyModel THEN Len(runs[r].log) - 1
    ELSE Len(runs[r].log) - Len(runs[r].toolsOutput)

\* C12: every run starts from a state object of its own with an empty
\* history and an empty marker, and under every interleaving of the runs of
\* one agent the history and the marker of a run are what the run itself
\* put there: the history is the run's own messages in the run's own order
\* (as when the run executes alone) and the marker is the one computed from
\* the run's own last model output.
C12_RunsAreIsolated ==
    \A r \in RunIds :
        runs[r].phase # "idle" =>
            /\ \A q \in RunIds \ {r} : runs[q].st # runs[r].st
            /\ runs[r].step = 0 => StateOf(r) = GenLocalState
            /\ \A k \in 1..Len(StateOf(r).Messages) : StateOf(r).Messages[k].uid[1] = r
            /\ StateOf(r).Messages = SubSeq(runs[r].log, 1, OwnHistoryLen(r))
            /\ StateOf(r).ReturnDirectlyToolCallID =
                   IF runs[r].lastNode \in {nodeKeyTools, nodeKeyDirectReturn}
                   THEN getReturnDirectlyToolCallID(runs[r].modelOutput, ToolReturnDirectly)
                   ELSE ""

\* two runs in flight, started in the order 2, 1: run 1 has recorded a
\* direct-return identifier, run 2 has executed its tools node without one
\* and is in its second model turn
C12_Witness ==
    /\ runs[1].st = 2 /\ runs[2].st = 1
    /\ runs[1].lastNode = nodeKeyTools /\ runs[1].phase = "branch"
    /\ StateOf(1).ReturnDirectlyToolCallID = "c1"
    /\ runs[2].lastNode = nodeKeyModel /\ runs[2].step = 3
    /\ StateOf(2).ReturnDirectlyToolCallID = ""
    /\ Len(StateOf(1).Messages) = 2 /\ Len(StateOf(2).Messages) = 3

\* errors of a failed capability invocation
InvokeErrs == {ErrModel, ErrTool}

\* C13: when the invocation of the model or of the tools fails, the run ends
\* with that error and without a message, the failed node being the last one
\* executed and selected (nothing is selected after it); a run that ended in
\* the node it had selected reports the failure; and no step of the run is
\* taken once it has failed (no further stage, no second invocation).
C13_InvocationFailureAbortsRun ==
    /\ [](err \in InvokeErrs =>
            /\ phase = "done" /\ final = NoMsg
            /\ lastNode = (IF err = ErrModel THEN nodeKeyModel ELSE nodeKeyTools)
            /\ next = lastNode)
    /\ []((phase = "done" /\ next = lastNode /\ lastNode \in {nodeKeyModel, nodeKeyTools})
            => err = (IF lastNode = nodeKeyModel THEN ErrModel ELSE ErrTool))
    /\ [][err \notin InvokeErrs]_vars

\* the tools fail in the second step, after the history took the input and
\* the model output
C13_Witness ==
    /\ err = ErrTool /\ phase = "done" /\ step = 2 /\ lastNode = nodeKeyTools
    /\ Len(Messages) >= 2 /\ final = NoMsg

\* the steps of this NewAgent call that are set to fail and are reached by
\* the configuration: binding the model to the tools, building the tools
\* node, wiring or compiling the graph
FailingSteps ==
    env.fails \cap ({stepChatModelWithTools, stepNewToolNode, stepCompile}
                    \cup Range(GraphSteps(ToolReturnDirectly)))

\* the tools whose descriptor cannot be resolved
FailingTools == {k \in 1..Len(env.Tools) : env.Tools[k].Info = "err"}

\* C14: if resolving any tool's descriptor fails, or the model cannot be
\* bound to the tools, or the tools node or the graph cannot be built or
\* compiled, NewAgent returns an error and no agent; it never returns both an
\* agent and an error, and an agent it returns has the whole graph wired and
\* every tool's descriptor.
C14_ConstructionIsAtomic ==
    phase = "built" =>
        /\ (FailingTools # {} \/ FailingSteps # {})
               => (created.err # NoErr /\ created.agent = NoAgent)
        /\ created.err # NoErr <=> created.agent = NoAgent
        /\ created.agent # NoAgent =>
               /\ created.agent.graph = Range(GraphSteps(ToolReturnDirectly))
               /\ Len(created.agent.toolInfos) = Len(env.Tools)

\* the second of two tools fails to give its descriptor, nothing else fails
C14_Witness ==
    /\ phase = "built"
    /\ Len(env.Tools) = 2 /\ env.Tools[1].Info = "ok" /\ env.Tools[2].Info = "err"
    /\ env.fails = {}
    /\ created = [agent |-> NoAgent, err |-> ErrInfo]

\* number of tool calls carried by the fragments `chunks`
RECURSIVE CountToolCalls(_)
CountToolCalls(chunks) ==
    IF chunks = <<>> THEN 0
    ELSE Len(Head(chunks).ToolCalls) + CountToolCalls(Tail(chunks))

\* C15: without a read failure the full-consume detector has read every
\* fragment of the stream (the merged message holds the tool calls of all of
\* them) and answers true exactly when some fragment carries a tool call,
\* wherever in the stream it is; on the empty stream it answers false.
C15_FullConsumeDetector ==
    (phase = "checkedFull" /\ err = NoErr) =>
        /\ isToolCall = (\E k \in 1..Len(given) : given[k].ToolCalls # <<>>)
        /\ given = <<>> => (~isToolCall /\ modelOutput = NoMsg)
        /\ given # <<>> => Len(modelOutput.ToolCalls) = CountToolCalls(given)

\* text first, the tool call in the second fragment: detected as a tool call
C15_Witness ==
    /\ phase = "checkedFull" /\ err = NoErr /\ isToolCall
    /\ Len(given) = 2
    /\ given[1] = Fragment("t", <<>>)
    /\ given[2] = Fragment("", <<ToolCall("c1", "search")>>)

\* positions in the merged list of the requests with the identifier of the
\* request that was streamed
MergedOrig == {k \in 1..Len(tcMerged) : tcMerged[k].ID = tcOrig.ID}

\* C16: for every cut of a request's argument string into fragments that
\* arrive in order under one index (empty fragments and a fragment of
\* another request in between included), concatToolCalls returns exactly one
\* request for that index, and its arguments are the original string.
C16_ArgumentsRoundTrip ==
    phase = "merged" =>
        /\ Cardinality(MergedOrig) = 1
        /\ \A k \in MergedOrig :
              /\ tcMerged[k].Arguments = tcOrig.Arguments
              /\ tcMerged[k].Name = tcOrig.Name

\* "aba" delivered as "a", "", "ba" with a piece of another request between
\* the first and the second fragment
C16_Witness ==
    /\ phase = "merged"
    /\ tcOrig.Arguments = <<"a", "b", "a">>
    /\ Len(tcChunks) = 4
    /\ tcChunks[1].Arguments = <<"a">> /\ tcChunks[1].ID = "c1"
    /\ tcChunks[2].ID = "c2" /\ tcChunks[2].Index # NoIndex
    /\ tcChunks[3].Arguments = <<>>
    /\ tcChunks[4].Arguments = <<"b", "a">>
    /\ Len(tcMerged) = 2

\* C17: with direct return configured, the successor selected after every
\* execution of the tools node depends on the recorded identifier alone: the
\* direct_return node when it is not empty, the chat model node when it is
\* empty, nothing else; and the direct_return node is followed by the end of
\* the run only.
C17_PostToolBranchFollowsMarker ==
    ToolReturnDirectly # {} =>
        /\ ( /\ lastNode = nodeKeyTools
             /\ (phase = "node" \/ (phase = "done" /\ err = ErrExceedMaxSteps)) )
           => /\ next \in {nodeKeyDirectReturn, nodeKeyModel}
              /\ next = nodeKeyDirectReturn <=> ReturnDirectlyToolCallID # ""
              /\ next = nodeKeyModel <=> ReturnDirectlyToolCallID = ""
        /\ lastNode = nodeKeyDirectReturn =>
              /\ phase = "done"
              /\ ReturnDirectlyToolCallID # ""
              /\ err = NoErr => next = END

\* two requests of which the second is eligible: the direct_return node is
\* selected whatever results the tools gave
C17_Witness ==
    /\ ToolReturnDirectly # {} /\ lastNode = nodeKeyTools /\ phase = "node"
    /\ ReturnDirectlyToolCallID = "c2" /\ next = nodeKeyDirectReturn
    /\ toolsOutput = <<>>

\* C18 as stated: the recorded identifier is empty after a tool-calling turn
\* without an eligible request, and it is empty again once the direct_return
\* node has extracted the result it names.
C18_MarkerResetOnceConsumed ==
    /\ (lastNode = nodeKeyTools /\ EligibleCalls(modelOutput) = {})
          => ReturnDirectlyToolCallID = ""
    /\ (lastNode = nodeKeyDirectReturn /\ phase = "done" /\ err = NoErr)
          => ReturnDirectlyToolCallID = ""

\* C18 amended: the recorded identifier is empty until the tools node runs;
\* every execution of the tools node sets it to the identifier of the first
\* eligible request of that turn, so it is empty after a turn without an
\* eligible request and whenever the chat model node runs again; the
\* direct_return node does not reset it: after the extraction it still holds
\* the identifier of the extracted result.
C18_MarkerSetByToolsNodeOnly ==
    /\ lastNode \in {START, nodeKeyModel} => ReturnDirectlyToolCallID = ""
    /\ lastNode \in {nodeKeyTools, nodeKeyDirectReturn} =>
          ReturnDirectlyToolCallID =
             (IF EligibleCalls(modelOutput) = {} THEN ""
              ELSE modelOutput.ToolCalls[Min(EligibleCalls(modelOutput))].ID)
    /\ lastNode = nodeKeyDirectReturn => ReturnDirectlyToolCallID # ""
    /\ (lastNode = nodeKeyDirectReturn /\ err = NoErr)
          => final.ToolCallID = ReturnDirectlyToolCallID

\* the direct_return node has returned the result of request c1 and the
\* state still holds c1
C18_Witness ==
    /\ lastNode = nodeKeyDirectReturn /\ phase = "done" /\ err = NoErr
    /\ ReturnDirectlyToolCallID = "c1" /\ final.ToolCallID = "c1"

IsPrefix(a, b) == Len(a) <= Len(b) /\ SubSeq(b, 1, Len(a)) = a

\* the last n elements of seq
LastN(seq, n) == SubSeq(seq, Len(seq) - n + 1, Len(seq))

\* the messages the caller passed to the run
CallerInput == SelectSeq(log, LAMBDA m : m.uid[1] = 0)

\* C19: the history only grows at its end (the history of every state is a
\* prefix of the history of every later state) and in causal order: once the
\* model has been called the caller's input is at its beginning; when the
\* tools node has run, the assistant message that requested the tools is its
\* last element and the results the tools gave are not in it yet; when the
\* model is called again, the results of those tools are its last elements,
\* right after that assistant message.
C19_HistoryAppendOnly ==
    /\ [][IsPrefix(Messages, Messages')]_vars
    /\ [](IsPrefix(Messages, log))
    /\ [](lastNode # START => IsPrefix(CallerInput, Messages))
    /\ [](lastNode \in {nodeKeyTools, nodeKeyDirectReturn} =>
            /\ Len(Messages) >= 2
            /\ Messages[Len(Messages)] = modelOutput
            /\ err # ErrTool =>
                  \A k \in 1..Len(toolsOutput) :
                      \A j \in 1..Len(Messages) : Messages[j] # toolsOutput[k])
    /\ []((lastNode = nodeKeyModel /\ step > 1) =>
            /\ Len(Messages) >= Len(toolsOutput) + 2
            /\ LastN(Messages, Len(toolsOutput)) = toolsOutput
            /\ Messages[Len(Messages) - Len(toolsOutput)].Role = "assistant"
            /\ Messages[Len(Messages) - Len(toolsOutput)].uid = <<step - 2, 0>>)

\* the second model call: input, tool-calling assistant message and two tool
\* results are in the history, in this order
C19_Witness ==
    /\ lastNode = nodeKeyModel /\ step = 3 /\ phase = "branch"
    /\ Len(toolsOutput) = 2
    /\ Len(Messages) = 4
    /\ Messages[1].Role = "user" /\ Messages[2].Role = "assistant"
    /\ Messages[3] = toolsOutput[1] /\ Messages[4] = toolsOutput[2]

\* C20: after the pre-processing of the chat model node the history is the
\* previous history followed by the node's input, whatever MessageModifier is
\* configured and whatever it does with the list it is given (adding,
\* removing, reordering or overwriting elements); without a modifier the
\* model is given the history itself, with NewPersonaModifier the history
\* preceded by the persona.
C20_ModifierLeavesHistory ==
    phase = "prehandled" =>
        /\ Messages = log
        /\ ReturnDirectlyToolCallID = ""
        /\ MessageModifier = NoModifier => modelInput = Messages
        /\ MessageModifier = "persona" =>
               /\ Len(modelInput) = Len(Messages) + 1
               /\ modelInput[1].Role = "system"
               /\ Tail(modelInput) = Messages
        /\ MessageModifier = "reverse" =>
               \A k \in 1..Len(Messages) : modelInput[k] = Messages[Len(Messages) + 1 - k]

\* a modifier that reorders the list in place: the model is given the
\* reordered list, the history keeps its order
C20_Witness ==
    /\ phase = "prehandled" /\ MessageModifier = "reverse"
    /\ Len(Messages) = 3 /\ Len(input) = 2
    /\ Messages[1].Role = "user" /\ Messages[3].Role = "tool"
    /\ modelInput[1].Role = "tool" /\ modelInput[3].Role = "user"

\* C21: called with a nil model output, toolsNodePreHandle leaves the history
\* and the marker as they were and returns the last message of the history
\* (there is none to return, and the call panics, when the history is
\* empty); called with a message it appends that one message to the history,
\* sets the marker from it and returns it.
C21_ToolsPreHandleOnResume ==
    phase = "toolsPrehandled" =>
        LET old == states[1]
        IN  IF modelOutput = NoMsg
            THEN /\ Messages = old.Messages
                 /\ ReturnDirectlyToolCallID = old.ReturnDirectlyToolCallID
                 /\ Len(old.Messages) > 0 =>
                        (toolsInput = old.Messages[Len(old.Messages)] /\ err = NoErr)
                 /\ Len(old.Messages) = 0 => err = ErrPanic
            ELSE /\ Len(Messages) = Len(old.Messages) + 1
                 /\ SubSeq(Messages, 1, Len(old.Messages)) = old.Messages
                 /\ Messages[Len(Messages)] = modelOutput
                 /\ ReturnDirectlyToolCallID =
                        (IF EligibleCalls(modelOutput) = {} THEN ""
                         ELSE modelOutput.ToolCalls[Min(EligibleCalls(modelOutput))].ID)
                 /\ toolsInput = modelOutput
                 /\ err = NoErr

\* a resumed run: nil input, the history ends with the assistant message
\* that requested the tools, the marker recorded before the interruption
C21_Witness ==
    /\ phase = "toolsPrehandled" /\ modelOutput = NoMsg
    /\ Len(Messages) = 2 /\ Messages[2].Role = "assistant"
    /\ toolsInput = Messages[2]
    /\ ReturnDirectlyToolCallID = "c1" /\ ToolReturnDirectly # {}

\* C22: the branch after the chat model hands a turn's stream to the checker
\* once: no stream is checked twice, the stream a model turn has just
\* produced is open and unchecked, and once the branch has run it has been
\* checked exactly once and is closed.
C22_CheckerOncePerTurn ==
    /\ sr.checked <= 1
    /\ (phase = "branch" /\ lastNode = nodeKeyModel) =>
          (sr.state = "open" /\ sr.checked = 0)
    /\ (lastNode = nodeKeyModel /\ (phase = "node" \/ (phase = "done" /\ err # ErrModel))) =>
          (sr.state = "closed" /\ sr.checked = 1)
    /\ sr.state = "closed" => sr.checked = 1

\* the second model turn of a run has been checked: its stream, not the
\* first turn's, carries the one check
C22_Witness ==
    /\ lastNode = nodeKeyModel /\ step = 3 /\ phase = "done" /\ err = NoErr
    /\ sr.state = "closed" /\ sr.checked = 1

\* C23: a run whose own context is cancelled before the checker has read the
\* model's stream gets the cancellation as the checker's error, with the
\* stream closed, and the cancellation of the context NewAgent was called
\* with does not abort the run's checker.
C23_CheckerAbortsOnRunCancel ==
    phase = "checked" =>
        /\ ctxRun \in cancelled => (err = ErrCanceled /\ sr.state = "closed")
        /\ ctxRun \notin cancelled => err # ErrCanceled

\* every tool message of the history h answers a request of an assistant
\* message earlier in h
ToolMessagesPaired(h) ==
    \A i \in DOMAIN h :
        h[i].Role = "tool" =>
            \E j \in 1..(i - 1) :
                /\ h[j].Role = "assistant"
                /\ \E k \in DOMAIN h[j].ToolCalls : h[j].ToolCalls[k].ID = h[i].ToolCallID

\* C24: modelPreHandle keeps the history paired: if every tool message of the
\* history it is called with answers a request of an earlier assistant
\* message, so does every tool message of the history it leaves, whatever
\* messages it is given.
C24_ToolMessagesPairedAfterPreHandle ==
    phase = "prehandled" =>
        (ToolMessagesPaired(SubSeq(Messages, 1, Len(Messages) - Len(input)))
            => ToolMessagesPaired(Messages))

\* C25: the history and the marker of a run change only in a step that
\* executes the chat model node or the tools node (their pre-handlers), and
\* a step executes at most one node; the branch after the chat model, the
\* branch after the tools node and the direct_return node leave both as
\* they were.
C25_StateChangesInPreHandlersOnly ==
    [][ /\ (Messages' # Messages \/ ReturnDirectlyToolCallID' # ReturnDirectlyToolCallID) =>
            /\ phase = "node" /\ next \in {nodeKeyModel, nodeKeyTools}
            /\ lastNode' = next /\ step' = step + 1
            /\ trace' = Append(trace, next)
        /\ (phase = "branch" \/ (phase = "node" /\ next = nodeKeyDirectReturn)) =>
            UNCHANGED <<Messages, ReturnDirectlyToolCallID>>
        /\ Len(trace') <= Len(trace) + 1 /\ step' <= step + 1
      ]_vars

\* a run that went through both branches and the direct_return node, whose
\* state is the one the tools node left
C25_Witness ==
    /\ phase = "done" /\ lastNode = nodeKeyDirectReturn /\ err = NoErr
    /\ trace = <<nodeKeyModel, nodeKeyTools, nodeKeyDirectReturn>>
    /\ ReturnDirectlyToolCallID # "" /\ Len(Messages) = 2

\* the first value of the sequence that is not the empty string, "" if none
RECURSIVE FirstNonEmpty(_)
FirstNonEmpty(values) ==
    IF values = <<>> THEN ""
    ELSE IF Head(values) # "" THEN Head(values)
    ELSE FirstNonEmpty(Tail(values))

\* C26: the request merged from the fragments of an index has, as its
\* identifier, type and name, the first non-empty value of that field among
\* the fragments in the order they arrived.
C26_FirstNonEmptyFieldWins ==
    (phase = "merged" /\ tcOrig = <<>>) =>
        \A k \in DOMAIN tcMerged :
            LET group == IndexGroup(tcChunks, 0)
            IN  /\ tcMerged[k].ID = FirstNonEmpty([j \in DOMAIN group |-> tcChunks[group[j]].ID])
                /\ tcMerged[k].Type = FirstNonEmpty([j \in DOMAIN group |-> tcChunks[group[j]].Type])
                /\ tcMerged[k].Name = FirstNonEmpty([j \in DOMAIN group |-> tcChunks[group[j]].Name])

\* position of the first fragment of the stream that carries a tool call,
\* 0 if none does
FirstToolCallAt(stream) ==
    LET with == {k \in DOMAIN stream : Len(stream[k].ToolCalls) > 0}
    IN  IF with = {} THEN 0 ELSE Min(with)

\* no fragment with content and without tool call comes before the first
\* fragment that carries a tool call
FrontLoaded(stream) ==
    \A k \in 1..(FirstToolCallAt(stream) - 1) : Len(stream[k].Content) = 0

\* what the two checkers answer on a stream all of whose fragments arrive
EarlyExit(stream) == firstChunkStreamToolCallChecker(StreamReader(stream), 0).isToolCall
FullConsume(stream) == claudeStyleToolCallChecker(StreamReader(stream), 0).isToolCall

\* C27: on a stream read without error, the checker that stops at the first
\* fragment with content or tool call and the checker that reads everything
\* give the same answer whenever the stream is front-loaded; they differ only
\* when text precedes the first tool call, and then the first says no and
\* the second says yes.
C27_EarlyExitAgreesWhenFrontLoaded ==
    LET early == IF phase = "checked" THEN isToolCall ELSE EarlyExit(given)
        full == IF phase = "checkedFull" THEN isToolCall ELSE FullConsume(given)
    IN  (phase \in {"checked", "checkedFull"} /\ err = NoErr) =>
            /\ FrontLoaded(given) => early = full
            /\ early # full => (~early /\ full /\ ~FrontLoaded(given))
            /\ (~FrontLoaded(given)) => (~early /\ full)

\* a front-loaded stream whose tool call comes after an empty fragment, read
\* by the early-exit checker, and the full-consume checker agrees
C27_Witness ==
    /\ phase = "checked" /\ err = NoErr /\ isToolCall
    /\ Len(given) = 2 /\ FirstToolCallAt(given) = 2 /\ FrontLoaded(given)
    /\ FullConsume(given)

\* C28: when the assistant message the tools node was entered with holds a
\* request for a tool of ToolReturnDirectly, the branch after the tools node
\* chooses the direct_return node, whatever the identifier of the request,
\* the empty one included.
C28_EligibleRequestRoutesToDirectReturn ==
    ( /\ ToolReturnDirectly # {}
      /\ AfterToolsBranch
      /\ EligibleCalls(toolsInput) # {} )
    => next = nodeKeyDirectReturn

\* C29: what the direct_return node of a run returns is determined by the
\* run itself: the error of its own reading of its state if that failed,
\* and otherwise the result among its own tool results whose ToolCallID is
\* the marker of its own state (ErrNoValue if there is none), however the
\* steps of the other runs are interleaved with it.
C29_ExtractorOutcomeIsOwn ==
    \A r \in DOMAIN runs :
        (runs[r].lastNode = nodeKeyDirectReturn /\ runs[r].phase = "done") =>
            LET res == directReturn(runs[r].toolsOutput, StateOf(r).ReturnDirectlyToolCallID)
            IN  IF runs[r].ownErr # NoErr
                THEN runs[r].err = runs[r].ownErr /\ runs[r].final = NoMsg
                ELSE runs[r].err = res.err /\ runs[r].final = res.msg

\* how many times the node was executed in the run so far
Executions(node) == Cardinality({k \in DOMAIN trace : trace[k] = node})

\* C30: the nodes of a run are executed in the order chat model, tools, chat
\* model, tools, ...: the first is the chat model, the tools node is never
\* executed twice in a row nor the chat model twice in a row, and
\* direct_return comes only last and after the tools node. A run that ended
\* after a chat model turn executed the chat model once more than the tools
\* node, a run that ended in direct_return as many times.
C30_StagesAlternate ==
    /\ trace # <<>> => trace[1] = nodeKeyModel
    /\ \A k \in 1..(Len(trace) - 1) :
          /\ trace[k] = nodeKeyModel => trace[k + 1] = nodeKeyTools
          /\ trace[k] = nodeKeyTools => trace[k + 1] \in {nodeKeyModel, nodeKeyDirectReturn}
          /\ trace[k] # nodeKeyDirectReturn
    /\ (phase = "done" /\ lastNode = nodeKeyModel) =>
          Executions(nodeKeyModel) = Executions(nodeKeyTools) + 1
    /\ (phase = "done" /\ lastNode = nodeKeyDirectReturn) =>
          /\ Executions(nodeKeyModel) = Executions(nodeKeyTools)
          /\ Executions(nodeKeyDirectReturn) = 1
    /\ Len(trace) = step
    /\ trace # <<>> => trace[Len(trace)] = lastNode

\* a run of two model turns and one tools turn that ended on the second
\* model turn
C30_Witness ==
    /\ phase = "done" /\ err = NoErr /\ lastNode = nodeKeyModel
    /\ trace = <<nodeKeyModel, nodeKeyTools, nodeKeyModel>>

\* no answer of the model in the run of agent a asked for a tool of the set
\* agent 1 returns directly
NoEligibleRequest(a) ==
    \A k \in DOMAIN runs[a].log :
        \A c \in DOMAIN runs[a].log[k].ToolCalls :
            runs[a].log[k].ToolCalls[c].Name \notin ToolReturnDirectly

C32_NoAgentWhileUnregistered ==
    (phase = "once" /\ env.onceDone /\ ~env.registered) =>
        \A c \in Callers :
            runs[c].pc = "returned" =>
                (runs[c].created.agent = NoAgent /\ runs[c].created.err # NoErr)
====
